---------------------------- MODULE Spec2Model ----------------------------
(***************************************************************************)
(* Model of the ABC song tooling (scripts/abc_tools_old.py,                *)
(* scripts/section_tools.py, scripts/build_song.py).                       *)
(*                                                                         *)
(* Text is modelled as the program sees it: a Python str is a sequence of  *)
(* one-character strings, "\n" included.  split, strip, startswith, join   *)
(* and str.count are operators over such sequences.                        *)
(***************************************************************************)
EXTENDS Integers, Sequences, FiniteSets, TLC

(***************************************************************************)
(* Bounds of the model.                                                    *)
(***************************************************************************)
MaxLines == 3
MaxSections == 3
MaxPieces == 2
MaxBars == 4

(***************************************************************************)
(* Python string primitives.                                               *)
(***************************************************************************)
NL == "\n"

\* str.strip() removes these from both ends
Whitespace == {" ", "\t", NL}

\* s.startswith(p)
StartsWith(s, p) == Len(s) >= Len(p) /\ SubSeq(s, 1, Len(p)) = p

\* s.startswith((p1, p2, ...))
StartsWithAny(s, ps) == \E p \in ps : StartsWith(s, p)

\* s.strip(): from the first to the last character that is not whitespace
Strip(s) ==
    LET keep == { i \in 1..Len(s) : s[i] \notin Whitespace } IN
    IF keep = {} THEN <<>>
    ELSE SubSeq(s, CHOOSE i \in keep : \A j \in keep : i <= j,
                   CHOOSE i \in keep : \A j \in keep : j <= i)

\* s.split('\n'): one piece more than there are "\n"; piece k lies between the
\* (k-1)-th and the k-th "\n"
SplitLines(s) ==
    LET brk == { i \in 1..Len(s) : s[i] = NL }
        nth(k) == IF k = 0 THEN 0
                  ELSE IF k > Cardinality(brk) THEN Len(s) + 1
                  ELSE CHOOSE i \in brk : Cardinality({ j \in brk : j < i }) = k - 1
    IN [k \in 1..(Cardinality(brk) + 1) |-> SubSeq(s, nth(k - 1) + 1, nth(k) - 1)]

\* '\n'.join(parts)
RECURSIVE JoinLines(_)
JoinLines(parts) ==
    IF parts = <<>> THEN <<>>
    ELSE IF Len(parts) = 1 THEN parts[1]
    ELSE parts[1] \o <<NL>> \o JoinLines(Tail(parts))

\* s.count(pat) for a pattern no occurrence of which can overlap another
\* (`|`, `|:`, `:|`, `|]`): the number of places where it occurs
StrCount(s, pat) ==
    Cardinality({ i \in 1..(Len(s) - Len(pat) + 1) : SubSeq(s, i, i + Len(pat) - 1) = pat })

\* pat in s
Contains(s, pat) == \E i \in 1..(Len(s) - Len(pat) + 1) : SubSeq(s, i, i + Len(pat) - 1) = pat

(***************************************************************************)
(* count_bars (abc_tools_old.py).                                          *)
(***************************************************************************)
\* the prefixes of line 56
SkipPrefixes ==
    { <<"X", ":">>, <<"T", ":">>, <<"C", ":">>, <<"M", ":">>, <<"L", ":">>,
      <<"Q", ":">>, <<"K", ":">>, <<"w", ":">>, <<"%">> }

PctPct == <<"%", "%">>
PctPctMIDI == <<"%", "%", "M", "I", "D", "I">>
VColon == <<"V", ":">>
VColon1 == <<"V", ":", "1">>
VColon2 == <<"V", ":", "2">>

Pipe == <<"|">>
RepeatStart == <<"|", ":">>
RepeatEnd == <<":", "|">>
FinalBar == <<"|", "]">>

\* ScanLine with the voice markers skipped but never acted on: every voice
\* is kept as if it were the first.
ScanLineAllVoices(st, rawline) ==
    LET line == Strip(rawline) IN
    IF line = <<>> THEN st
    ELSE IF StartsWithAny(line, SkipPrefixes) /\ ~StartsWith(line, PctPct) THEN st
    ELSE IF StartsWith(line, VColon) THEN st
    ELSE IF StartsWith(line, PctPctMIDI) THEN st
    ELSE [st EXCEPT !.music_lines = Append(@, line)]

\* One iteration of the loop over lines (lines 50-73); st is the pair of
\* loop variables in_first_voice, music_lines.
ScanLine(st, rawline) ==
    LET line == Strip(rawline) IN
    IF line = <<>> THEN st
    ELSE IF StartsWithAny(line, SkipPrefixes) /\ ~StartsWith(line, PctPct) THEN st
    ELSE IF StartsWith(line, VColon)
         THEN [st EXCEPT !.in_first_voice = StartsWith(line, VColon1)]
    ELSE IF StartsWith(line, PctPctMIDI) THEN st
    ELSE IF st.in_first_voice
         THEN [st EXCEPT !.music_lines = Append(@, line)]
    ELSE st

\* CountMusic counting the kept lines that hold a separator, not the
\* separators: right for one bar per line only.
CountMusicLines(music_lines) ==
    Cardinality({ i \in 1..Len(music_lines) : Contains(music_lines[i], Pipe) })

\* CountMusic without the bar a final-bar marker closes
CountMusicNoFinal(music_lines) ==
    LET music_content == JoinLines(music_lines)
    IN StrCount(music_content, Pipe) - StrCount(music_content, RepeatStart)
           - StrCount(music_content, RepeatEnd)
           - StrCount(music_content, FinalBar)

\* lines 75-90: join the kept lines and count the separators
CountMusic(music_lines) ==
    LET music_content == JoinLines(music_lines)
        pipes == StrCount(music_content, Pipe)
        marked == pipes - StrCount(music_content, RepeatStart)
                        - StrCount(music_content, RepeatEnd)
                        - StrCount(music_content, FinalBar)
    IN IF Contains(music_content, FinalBar) THEN marked + 1 ELSE marked

ScanStart == [in_first_voice |-> TRUE, music_lines |-> <<>>]

RECURSIVE ScanAll(_, _)
ScanAll(st, lines) ==
    IF lines = <<>> THEN st ELSE ScanAll(ScanLine(st, Head(lines)), Tail(lines))

\* count_bars as a function of its argument
count_bars(abc_content) ==
    CountMusic(ScanAll(ScanStart, SplitLines(abc_content)).music_lines)


(***************************************************************************)
(* read_section_file and combine_sections (abc_tools_old.py).              *)
(***************************************************************************)
KColon == <<"K", ":">>

\* the prefixes of line 139
SectionSkipPrefixes ==
    { <<"X", ":">>, <<"T", ":">>, <<"C", ":">>, <<"M", ":">>, <<"L", ":">>,
      <<"Q", ":">>, <<"V", ":">>, <<"%", "%">> }

\* lines 134-140: the loop of read_section_file from line i on
RECURSIVE ReadSectionFrom(_, _, _)
ReadSectionFrom(ls, i, in_music) ==
    IF i > Len(ls) THEN <<>>
    ELSE IF StartsWith(ls[i], KColon) THEN ReadSectionFrom(ls, i + 1, TRUE)
    ELSE IF in_music /\ Strip(ls[i]) # <<>> /\ ~StartsWithAny(ls[i], SectionSkipPrefixes)
         THEN <<ls[i]>> \o ReadSectionFrom(ls, i + 1, in_music)
    ELSE ReadSectionFrom(ls, i + 1, in_music)

\* read_section_file, on the text of the file
read_section_file(content) == JoinLines(ReadSectionFrom(SplitLines(content), 1, FALSE))

\* the prefixes of line 206
PercSkipPrefixes ==
    { <<"X", ":">>, <<"T", ":">>, <<"C", ":">>, <<"M", ":">>, <<"L", ":">>,
      <<"Q", ":">>, <<"K", ":">>, <<"%">> }

\* lines 204-220: one line of a percussion fragment; st holds current_voice,
\* v1_music and v2_music
PercLine(st, rawline) ==
    LET line == Strip(rawline) IN
    IF line = <<>> \/ StartsWithAny(line, PercSkipPrefixes) THEN st
    ELSE IF StartsWith(line, VColon2) THEN [st EXCEPT !.current_voice = 2]
    ELSE IF StartsWith(line, VColon1) THEN [st EXCEPT !.current_voice = 1]
    ELSE IF StartsWith(line, PctPctMIDI) THEN st
    ELSE IF st.current_voice = 1 THEN [st EXCEPT !.v1_music = Append(@, line)]
    ELSE IF st.current_voice = 2 THEN [st EXCEPT !.v2_music = Append(@, line)]
    ELSE st

RECURSIVE PercLines(_, _)
PercLines(st, ls) ==
    IF ls = <<>> THEN st ELSE PercLines(PercLine(st, Head(ls)), Tail(ls))

\* lines 199-220: a percussion fragment split by voice
PercSplit(content) ==
    PercLines([current_voice |-> 1, v1_music |-> <<>>, v2_music |-> <<>>],
              SplitLines(content))

\* the arguments the model keeps fixed
Title == <<"T", "e", "s", "t", " ", "S", "o", "n", "g">>
Composer == <<"B">>
Tempo == <<"8", "8">>
TimeSig == <<"4", "/", "4">>

\* lines 166-176
PercussionHeader ==
    <<"X", ":", "1", NL, "T", ":">> \o Title \o <<" ", "-", " ", "D", "r", "u", "m", "s", " ", " ", NL, "C", ":">> \o Composer
    \o <<NL, "M", ":">> \o TimeSig \o <<NL, "L", ":", "1", "/", "8", NL, "Q", ":", "1", "/", "4", "=">> \o Tempo
    \o 
       <<NL, "K", ":", "C", " ", "p", "e", "r", "c", NL, "V", ":", "1", " ",
         "n", "a", "m", "e", "=", "\"", "K", "i", "c", "k", "\"", NL, "%",
         "%", "M", "I", "D", "I", " ", "p", "r", "o", "g", "r", "a", "m",
         " ", "1", "2", "8", NL, "%", "%", "M", "I", "D", "I", " ", "c", "h",
         "a", "n", "n", "e", "l", " ", "1", "0", NL>>

\* lines 178-187
MelodicHeader(k, program) ==
    <<"X", ":", "1", NL, "T", ":">> \o Title \o <<NL, "C", ":">> \o Composer \o <<NL, "M", ":">> \o TimeSig
    \o <<NL, "L", ":", "1", "/", "8", NL, "Q", ":", "1", "/", "4", "=">> \o Tempo \o <<NL, "K", ":">> \o k
    \o <<NL, "V", ":", "1", NL, "%", "%", "M", "I", "D", "I", " ", "p", "r", "o", "g", "r", "a", "m", " ">> \o program \o <<NL>>

\* line 240
SnareBlock ==
    <<NL, "V", ":", "2", " ", "n", "a", "m", "e", "=", "\"", "S", "n", "a",
      "r", "e", "\"", NL, "%", "%", "M", "I", "D", "I", " ", "p", "r", "o",
      "g", "r", "a", "m", " ", "1", "2", "8", NL, "%", "%", "M", "I", "D",
      "I", " ", "c", "h", "a", "n", "n", "e", "l", " ", "1", "0", NL>>

\* lines 234-243
Assemble(hdr, perc, v1parts, v2parts) ==
    IF perc
    THEN hdr \o JoinLines(v1parts)
         \o (IF v2parts # <<>> THEN SnareBlock \o JoinLines(v2parts) ELSE <<>>)
    ELSE hdr \o JoinLines(v1parts)

\* lines 189-231: the parts the section files give to voice v
RECURSIVE VoiceParts(_, _, _)
VoiceParts(files, perc, v) ==
    IF files = <<>> THEN <<>>
    ELSE LET f == Head(files)
             st == PercSplit(f.text)
             part == IF ~f.exists THEN <<>>
                     ELSE IF ~perc
                          THEN (IF v = 1 THEN <<read_section_file(f.text)>> ELSE <<>>)
                     ELSE IF v = 1
                          THEN (IF st.v1_music # <<>> THEN <<JoinLines(st.v1_music)>> ELSE <<>>)
                          ELSE (IF st.v2_music # <<>> THEN <<JoinLines(st.v2_music)>> ELSE <<>>)
         IN part \o VoiceParts(Tail(files), perc, v)

\* combine_sections as a function of the section files and the instrument
combine_sections(files, perc, k, program) ==
    Assemble(IF perc THEN PercussionHeader ELSE MelodicHeader(k, program), perc,
             VoiceParts(files, perc, 1), VoiceParts(files, perc, 2))

(***************************************************************************)
(* State.                                                                  *)
(***************************************************************************)
VARIABLES
    pc,              \* position of the running operation
    abc_content,     \* count_bars: its argument
    lines,           \* count_bars: abc_content.split('\n')
    idx,             \* count_bars: index of the next line of the loop
    in_first_voice,  \* count_bars: line 48
    music_lines,     \* count_bars: line 47
    bar_count,       \* count_bars: the value returned (-1 before it returns)
    fs,              \* the files: path -> [exists, text]
    sections,        \* combine_sections: the section files, in order
    is_percussion,   \* combine_sections: argument
    midi_program,    \* combine_sections: argument
    key,             \* combine_sections: argument
    sec_idx,         \* combine_sections: index of the next section of the loop
    header,          \* combine_sections: lines 164-187
    voice1_parts,    \* combine_sections: line 190
    voice2_parts,    \* combine_sections: line 191
    warnings,        \* combine_sections: the paths warned about (line 231)
    full_content,    \* combine_sections: the value returned
    run,             \* validate_abc_file: how subprocess.run ended
    invoked,         \* the files subprocess.run was called on, in call order
    valid,           \* validate_abc_file: first component of the result
    message,         \* validate_abc_file: second component of the result
    abc_files,       \* verify_song_consistency: line 256, in glob order
    file_idx,        \* verify_song_consistency: index of the next file of the loop
    results,         \* verify_song_consistency: the dict returned
    section_specs,   \* SongStructure: section name -> bars
    section_name,    \* create_section_template / validate_section_file: argument
    instrument,      \* create_section_template / validate_section_file: argument
    output_file,     \* create_section_template: argument (a path, or NoPath)
    expected_bars,   \* create_section_template: line 114
    is_perc,         \* create_section_template: line 115
    tpl_header,      \* create_section_template: header
    kick_bars,       \* create_section_template: line 131
    snare_bars,      \* create_section_template: line 138
    bars,            \* create_section_template: line 147
    content,         \* create_section_template: the value returned
    tool,            \* command line: the script run
    command,         \* command line: args.command
    exit_code,       \* the exit code of the process (-1 while it runs)
    uncaught,        \* the exception that ended the process ("none": none did)
    pairs,           \* section_tools: the (section, instrument) pairs, in loop order
    pair_idx,        \* section_tools: index of the next pair of the loop
    count,           \* section_tools generate-all: line 346
    run_no,          \* section_tools generate-all: which run of the command this is
    midi_track,      \* inject_midi_controls: the main track of the MIDI file
    inject_args,     \* inject_midi_controls: arguments and environment
    abs_messages,    \* inject_midi_controls: line 121
    new_messages,    \* inject_midi_controls: line 127
    modified,        \* inject_midi_controls: line 113
    saved_track,     \* inject_midi_controls: the track mid.save wrote (line 170)
    midi_saved,      \* inject_midi_controls: mid.save was called
    inject_result,   \* inject_midi_controls: the value returned ("none" before)
    input_text,      \* parse_lyrics_to_structure: its argument
    text_lines,      \* parse_lyrics_to_structure: `lines`, line 169
    line_no,         \* parse_lyrics_to_structure: index of the next line of the loop
    current_section, \* parse_lyrics_to_structure: line 176 (<<>> for None)
    current_lines,   \* parse_lyrics_to_structure: line 177
    section_counts,  \* parse_lyrics_to_structure: line 178
    lyrics_structure, \* parse_lyrics_to_structure: `structure`, the dict returned
    dirs,            \* the directories that exist
    config,          \* build_song / generate_song: the YAML document loaded
    inst_idx         \* build_song_from_sections: index of the next instrument

count_vars == <<abc_content, lines, idx, in_first_voice, music_lines, bar_count>>

combine_vars ==
    <<fs, sections, is_percussion, midi_program, key, sec_idx, header,
      voice1_parts, voice2_parts, warnings, full_content>>

render_vars == <<run, invoked, valid, message>>

verify_vars == <<abc_files, file_idx, results>>

template_vars ==
    <<section_specs, section_name, instrument, output_file, expected_bars, is_perc,
      tpl_header, kick_bars, snare_bars, bars, content>>

cli_vars == <<tool, command, exit_code, uncaught>>

loop_vars == <<pairs, pair_idx, count, run_no>>

inject_vars ==
    <<midi_track, inject_args, abs_messages, new_messages, modified, saved_track,
      midi_saved, inject_result>>

lyrics_vars ==
    <<input_text, text_lines, line_no, current_section, current_lines, section_counts,
      lyrics_structure>>

song_vars == <<dirs, config, inst_idx, loop_vars>>

vars ==
    <<pc, count_vars, combine_vars, render_vars, verify_vars, template_vars, cli_vars,
      song_vars, inject_vars, lyrics_vars>>

\* what an operation leaves alone
NotCount ==
    <<combine_vars, render_vars, verify_vars, template_vars, cli_vars, song_vars, inject_vars, lyrics_vars>>
NotCombine ==
    <<count_vars, render_vars, verify_vars, template_vars, cli_vars, song_vars, inject_vars, lyrics_vars>>
NotRender ==
    <<count_vars, combine_vars, verify_vars, template_vars, cli_vars, song_vars, inject_vars, lyrics_vars>>
NotVerify ==
    <<count_vars, combine_vars, template_vars, cli_vars, song_vars, inject_vars, lyrics_vars>>
NotTemplate ==
    <<count_vars, render_vars, verify_vars, cli_vars, song_vars, inject_vars, lyrics_vars>>

\* a file that exists, a path with no file
File(text) == [exists |-> TRUE, text |-> text]
NoFile == [exists |-> FALSE, text |-> <<>>]

\* the variables of an operation that is not running
CountIdle ==
    /\ abc_content = <<>>
    /\ lines = <<>>
    /\ idx = 0
    /\ in_first_voice = TRUE
    /\ music_lines = <<>>
    /\ bar_count = -1

CombineLocalsIdle ==
    /\ sections = <<>>
    /\ is_percussion = FALSE
    /\ midi_program = <<>>
    /\ key = <<>>
    /\ sec_idx = 0
    /\ header = <<>>
    /\ voice1_parts = <<>>
    /\ voice2_parts = <<>>
    /\ warnings = <<>>
    /\ full_content = <<>>

CombineIdle ==
    /\ fs = <<>>
    /\ CombineLocalsIdle

NoRun == [kind |-> "none", text |-> <<>>]

RenderIdle ==
    /\ run = NoRun
    /\ invoked = <<>>
    /\ valid = FALSE
    /\ message = <<>>

NoResults == [pending |-> TRUE]

VerifyIdle ==
    /\ abc_files = <<>>
    /\ file_idx = 0
    /\ results = NoResults

NoPath == "none"

TemplateLocalsIdle ==
    /\ output_file = NoPath
    /\ expected_bars = -1
    /\ is_perc = FALSE
    /\ tpl_header = <<>>
    /\ kick_bars = <<>>
    /\ snare_bars = <<>>
    /\ bars = <<>>
    /\ content = <<>>

TemplateIdle ==
    /\ section_specs = <<>>
    /\ section_name = <<>>
    /\ instrument = <<>>
    /\ TemplateLocalsIdle

\* no command line: the operation is called directly
CliIdle ==
    /\ tool = "none"
    /\ command = "none"
    /\ exit_code = -1
    /\ uncaught = "none"

\* no song is being built or generated
NoConfig == [loaded |-> FALSE]
LoopIdle ==
    /\ pairs = <<>>
    /\ pair_idx = 0
    /\ count = 0
    /\ run_no = 0

NoArgs == [given |-> FALSE]

InjectIdle ==
    /\ midi_track = <<>>
    /\ inject_args = NoArgs
    /\ abs_messages = <<>>
    /\ new_messages = <<>>
    /\ modified = FALSE
    /\ saved_track = <<>>
    /\ midi_saved = FALSE
    /\ inject_result = "none"

NoStructure == [sections |-> <<>>, section_order |-> <<>>]

LyricsIdle ==
    /\ input_text = <<>>
    /\ text_lines = <<>>
    /\ line_no = 0
    /\ current_section = <<>>
    /\ current_lines = <<>>
    /\ section_counts = <<>>
    /\ lyrics_structure = NoStructure

SongIdle ==
    /\ dirs = {}
    /\ config = NoConfig
    /\ inst_idx = 0
    /\ LoopIdle
    /\ InjectIdle
    /\ LyricsIdle

(***************************************************************************)
(* ABC text the counter is run on: up to MaxLines chunks (a line, or a     *)
(* voice marker with its line), taken from authored material.              *)
(***************************************************************************)
ExampleThreeBars ==
    <<"C", "4", " ", "D", "4", " ", "|", " ", "E", "4", " ", "F", "4", " ", "|",
      " ", "G", "8", " ", "|">>

VoiceOneChunk == <<"V", ":", "1", NL, "C", "8", " ", "|">>
VoiceTwoChunk == <<"V", ":", "2", NL, "E", "8", " ", "|", "E", "|">>
VoiceTwelveChunk == <<"V", ":", "1", "2", NL, "G", "8", " ", "|">>

DoubleRepeatChunk ==
    <<"|", ":", " ", "C", "8", " ", ":", "|", ":", " ", "D", "8", " ", ":", "|">>

Chunks ==
    { <<"C", "8", " ", "|">>,                                        \* C8 |
      ExampleThreeBars,                                              \* C4 D4 | E4 F4 | G8 |
      <<"|", ":", " ", "C", "8", " ", "|", " ", "D", "8", " ", ":", "|">>,  \* |: C8 | D8 :|
      <<"|", ":", " ", "C", "8", " ", ":", "|">>,                    \* |: C8 :|
      <<"C", "8", " ", "|", "]">>,                                   \* C8 |]
      <<"T", ":", "a", "|", "b">>,                                   \* T:a|b
      <<"w", ":", "l", "a", " ", "|">>,                              \* w:la |
      <<" ", "%", " ", "c", " ", "|">>,                              \*  % c |
      <<"%", "%", "M", "I", "D", "I", " ", "|">>,                    \* %%MIDI |
      <<"%", "%", "t", " ", "|">>,                                   \* %%t |
      VoiceOneChunk,                                                 \* V:1 / C8 |
      VoiceTwoChunk,                                                 \* V:2 / E8 |E|
      VoiceTwelveChunk,                                              \* V:12 / G8 |
      DoubleRepeatChunk,                                             \* |: C8 :|: D8 :|
      <<>> }                                                         \* blank line

Texts == { JoinLines(cs) : cs \in UNION { [1..n -> Chunks] : n \in 0..MaxLines } }

(***************************************************************************)
(* count_bars, one step per loop iteration.                                *)
(***************************************************************************)
CountInit ==
    /\ pc = "count_bars"
    /\ abc_content \in Texts
    /\ lines = <<>>
    /\ idx = 0
    /\ in_first_voice = TRUE
    /\ music_lines = <<>>
    /\ bar_count = -1
    /\ CombineIdle
    /\ RenderIdle
    /\ VerifyIdle
    /\ TemplateIdle
    /\ CliIdle
    /\ SongIdle

\* lines 46-48
CountBarsSplit ==
    /\ pc = "count_bars"
    /\ lines' = SplitLines(abc_content)
    /\ idx' = 1
    /\ in_first_voice' = ScanStart.in_first_voice
    /\ music_lines' = ScanStart.music_lines
    /\ pc' = "scan"
    /\ UNCHANGED <<abc_content, bar_count, NotCount>>

\* lines 50-73, one line
CountBarsScan ==
    /\ pc = "scan"
    /\ idx <= Len(lines)
    /\ LET st == ScanLine([in_first_voice |-> in_first_voice,
                           music_lines |-> music_lines], lines[idx])
       IN /\ in_first_voice' = st.in_first_voice
          /\ music_lines' = st.music_lines
    /\ idx' = idx + 1
    /\ UNCHANGED <<pc, abc_content, lines, bar_count, NotCount>>

\* lines 75-90
CountBarsReturn ==
    /\ pc = "scan"
    /\ idx > Len(lines)
    /\ bar_count' = CountMusic(music_lines)
    /\ pc' = "done"
    /\ UNCHANGED <<abc_content, lines, idx, in_first_voice, music_lines, NotCount>>

(***************************************************************************)
(* combine_sections, one step per section of the list.                     *)
(***************************************************************************)
\* test fixture intro-bass.abc: 2 bars
FragIntro ==
    <<"X", ":", "1", NL, "T", ":", "T", "e", "s", "t", NL, "M", ":", "4",
      "/", "4", NL, "L", ":", "1", "/", "8", NL, "K", ":", "C", NL, "C", "8",
      " ", "|", " ", "C", "8", " ", "|", NL>>

\* 3 bars on two lines, a lyric line, a comment
FragTwoLines ==
    <<"K", ":", "C", NL, "C", "8", " ", "|", NL, "w", ":", "l", "a", NL, "D",
      "8", " ", "|", " ", "E", "8", " ", "|", NL, "%", " ", "c", " ", "|">>

\* music with no header at all
FragNoKey ==
    <<"C", "8", " ", "|", " ", "C", "8", " ", "|">>

\* one bar closed by the final-bar marker
FragFinal ==
    <<"K", ":", "C", NL, "C", "8", " ", "|", "]">>

\* kick 1 bar, snare 2 bars
FragDrums ==
    <<"K", ":", "C", " ", "p", "e", "r", "c", NL, "V", ":", "1", " ", "n",
      "a", "m", "e", "=", "\"", "K", "i", "c", "k", "\"", NL, "C", "4", " ",
      "C", "4", " ", "|", NL, "V", ":", "2", " ", "n", "a", "m", "e", "=",
      "\"", "S", "n", "a", "r", "e", "\"", NL, "z", "4", " ", "E", "4", " ",
      "|", " ", "z", "8", " ", "|">>

\* percussion with voice 1 only
FragKickOnly ==
    <<"K", ":", "C", " ", "p", "e", "r", "c", NL, "V", ":", "1", NL, "C",
      "4", " ", "C", "4", " ", "|", " ", "C", "8", " ", "|">>

\* voice 2 written first
FragSnareFirst ==
    <<"K", ":", "C", " ", "p", "e", "r", "c", NL, "V", ":", "2", NL, "z",
      "8", " ", "|", NL, "V", ":", "1", NL, "C", "8", " ", "|", "]">>

FragmentTexts ==
    { FragIntro, FragTwoLines, FragNoKey, FragFinal, FragDrums, FragKickOnly,
      FragSnareFirst }

SectionPaths == {"intro.abc", "verse.abc"}
OutputPath == "out.abc"

CombineInit ==
    /\ pc = "combine_sections"
    /\ fs \in [SectionPaths \cup {OutputPath} -> {File(t) : t \in FragmentTexts} \cup {NoFile}]
    /\ fs[OutputPath] = NoFile
    /\ sections \in UNION { [1..n -> SectionPaths] : n \in 0..MaxSections }
    /\ is_percussion \in BOOLEAN
    /\ midi_program = <<"3", "3">>
    /\ key \in { <<"C">>, <<"A", "m">> }
    /\ sec_idx = 0
    /\ header = <<>>
    /\ voice1_parts = <<>>
    /\ voice2_parts = <<>>
    /\ warnings = <<>>
    /\ full_content = <<>>
    /\ CountIdle
    /\ RenderIdle
    /\ VerifyIdle
    /\ TemplateIdle
    /\ CliIdle
    /\ SongIdle

\* lines 164-191
CombineHeader ==
    /\ pc = "combine_sections"
    /\ header' = (IF is_percussion THEN PercussionHeader ELSE MelodicHeader(key, midi_program))
    /\ voice1_parts' = <<>>
    /\ voice2_parts' = <<>>
    /\ sec_idx' = 1
    /\ pc' = "sections"
    /\ UNCHANGED <<fs, sections, is_percussion, midi_program, key, warnings, full_content, NotCombine>>

\* lines 193-194, 230-231: the section file does not exist
CombineMissing ==
    /\ pc = "sections"
    /\ sec_idx <= Len(sections)
    /\ ~fs[sections[sec_idx]].exists
    /\ warnings' = Append(warnings, sections[sec_idx])
    /\ sec_idx' = sec_idx + 1
    /\ UNCHANGED <<pc, fs, sections, is_percussion, midi_program, key, header,
                   voice1_parts, voice2_parts, full_content, NotCombine>>

\* lines 197-225
CombinePercussion ==
    /\ pc = "sections"
    /\ sec_idx <= Len(sections)
    /\ fs[sections[sec_idx]].exists
    /\ is_percussion
    /\ LET st == PercSplit(fs[sections[sec_idx]].text) IN
       /\ voice1_parts' = (IF st.v1_music # <<>>
                           THEN Append(voice1_parts, JoinLines(st.v1_music))
                           ELSE voice1_parts)
       /\ voice2_parts' = (IF st.v2_music # <<>>
                           THEN Append(voice2_parts, JoinLines(st.v2_music))
                           ELSE voice2_parts)
    /\ sec_idx' = sec_idx + 1
    /\ UNCHANGED <<pc, fs, sections, is_percussion, midi_program, key, header,
                   warnings, full_content, NotCombine>>

\* lines 226-229
CombineMelodic ==
    /\ pc = "sections"
    /\ sec_idx <= Len(sections)
    /\ fs[sections[sec_idx]].exists
    /\ ~is_percussion
    /\ voice1_parts' = Append(voice1_parts, read_section_file(fs[sections[sec_idx]].text))
    /\ sec_idx' = sec_idx + 1
    /\ UNCHANGED <<pc, fs, sections, is_percussion, midi_program, key, header,
                   voice2_parts, warnings, full_content, NotCombine>>

\* lines 233-248
CombineWrite ==
    /\ pc = "sections"
    /\ sec_idx > Len(sections)
    /\ full_content' = Assemble(header, is_percussion, voice1_parts, voice2_parts)
    /\ fs' = [fs EXCEPT ![OutputPath] = File(full_content')]
    /\ pc' = "done"
    /\ UNCHANGED <<sections, is_percussion, midi_program, key, sec_idx, header,
                   voice1_parts, voice2_parts, warnings, NotCombine>>

CombineNext ==
    \/ CombineHeader
    \/ CombineMissing
    \/ CombinePercussion
    \/ CombineMelodic
    \/ CombineWrite

SpecCombine == CombineInit /\ [][CombineNext]_vars

Init == CountInit

Next ==
    \/ CountBarsSplit
    \/ CountBarsScan
    \/ CountBarsReturn

Spec == Init /\ [][Next]_vars

(***************************************************************************)
(* ABC notation, as the standard reads it: the kind of a line and the bar  *)
(* lines written on a music line.  These state what the properties below   *)
(* expect; the program does not use them.                                  *)
(***************************************************************************)
FieldPrefixes ==
    { <<"X", ":">>, <<"T", ":">>, <<"C", ":">>, <<"M", ":">>, <<"L", ":">>,
      <<"Q", ":">>, <<"K", ":">> }

LineKind(rawline) ==
    LET l == Strip(rawline) IN
    IF l = <<>> THEN "blank"
    ELSE IF StartsWith(l, <<"%", "%">>) THEN "directive"
    ELSE IF StartsWith(l, <<"%">>) THEN "comment"
    ELSE IF StartsWith(l, <<"w", ":">>) THEN "lyric"
    ELSE IF StartsWith(l, <<"V", ":">>) THEN "voice"
    ELSE IF StartsWithAny(l, FieldPrefixes) THEN "field"
    ELSE "music"

\* the bar-line tokens of a music line, left to right
RECURSIVE BarTokensFrom(_, _)
BarTokensFrom(s, i) ==
    IF i > Len(s) THEN <<>>
    ELSE IF s[i] = "|" /\ i < Len(s) /\ s[i + 1] = ":"
         THEN <<"repeat_start">> \o BarTokensFrom(s, i + 2)
    ELSE IF s[i] = "|" /\ i < Len(s) /\ s[i + 1] = "]"
         THEN <<"final">> \o BarTokensFrom(s, i + 2)
    ELSE IF s[i] = ":" /\ i < Len(s) /\ s[i + 1] = "|"
         THEN <<"repeat_end">> \o BarTokensFrom(s, i + 2)
    ELSE IF s[i] = "|" THEN <<"bar">> \o BarTokensFrom(s, i + 1)
    ELSE BarTokensFrom(s, i + 1)

BarTokens(line) == BarTokensFrom(line, 1)

\* every token but a repeat start closes one written bar
ClosesBar(tok) == tok \in {"bar", "repeat_end", "final"}

BarsOnLine(line) == Cardinality({ i \in 1..Len(BarTokens(line)) : ClosesBar(BarTokens(line)[i]) })

RECURSIVE SumBars(_)
SumBars(ls) ==
    IF ls = <<>> THEN 0
    ELSE (IF LineKind(Head(ls)) = "music" THEN BarsOnLine(Head(ls)) ELSE 0) + SumBars(Tail(ls))

\* the bars physically written on the music lines of a text
BarsWritten(text) == SumBars(SplitLines(text))

MusicLinesOf(text) ==
    SelectSeq(SplitLines(text), LAMBDA l : LineKind(l) = "music")

\* a text made of bars closed by a plain `|` and nothing else
IsPlainMusic(text) ==
    \A i \in 1..Len(SplitLines(text)) :
        LET l == SplitLines(text)[i] IN
        /\ LineKind(l) \in {"blank", "music"}
        /\ \A j \in 1..Len(BarTokens(l)) : BarTokens(l)[j] = "bar"

\* the voice a marker line names: the text after V: up to the first blank
RECURSIVE UpToBlank(_)
UpToBlank(s) ==
    IF s = <<>> \/ Head(s) \in Whitespace THEN <<>> ELSE <<Head(s)>> \o UpToBlank(Tail(s))

VoiceNamed(rawline) == UpToBlank(SubSeq(Strip(rawline), 3, Len(Strip(rawline))))

\* the lines written under voice 1 (a text starts in voice 1), markers left out
RECURSIVE VoiceOneLines(_, _)
VoiceOneLines(ls, cur) ==
    IF ls = <<>> THEN <<>>
    ELSE IF LineKind(Head(ls)) = "voice"
         THEN VoiceOneLines(Tail(ls), VoiceNamed(Head(ls)))
    ELSE (IF cur = <<"1">> THEN <<Head(ls)>> ELSE <<>>) \o VoiceOneLines(Tail(ls), cur)

VoiceOneMusic(text) == JoinLines(VoiceOneLines(SplitLines(text), <<"1">>))

\* a file with voices 1 and 2 and no other
IsTwoVoice(text) ==
    LET ls == SplitLines(text)
        markers == { i \in 1..Len(ls) : LineKind(ls[i]) = "voice" }
    IN /\ \E i \in markers : VoiceNamed(ls[i]) = <<"2">>
       /\ \A i \in markers : VoiceNamed(ls[i]) \in { <<"1">>, <<"2">> }

\* one passage |: bar_1 | ... | bar_k :| and nothing else
IsRepeatPassage(text) ==
    /\ Len(MusicLinesOf(text)) = 1
    /\ \A i \in 1..Len(SplitLines(text)) : LineKind(SplitLines(text)[i]) \in {"blank", "music"}
    /\ LET toks == BarTokens(MusicLinesOf(text)[1]) IN
       /\ Len(toks) >= 2
       /\ toks[1] = "repeat_start"
       /\ toks[Len(toks)] = "repeat_end"
       /\ \A j \in 2..(Len(toks) - 1) : toks[j] = "bar"

\* lines that carry no music, with a bar character in them
NonMusicLines ==
    { <<"X", ":", "1">>,
      <<"T", ":", "a", "|", "b">>,
      <<"C", ":", "|">>,
      <<"M", ":", "4", "/", "4">>,
      <<"L", ":", "1", "/", "8">>,
      <<"Q", ":", "|">>,
      <<"K", ":", "C">>,
      <<"w", ":", "l", "a", " ", "|">>,
      <<"%", " ", "c", " ", "|">>,
      <<"%", "%", "M", "I", "D", "I", " ", "|">>,
      <<"%", "%", "t", " ", "|">> }

\* text with line h put in after its i-th line (i = 0: before the first)
InsertLine(text, i, h) ==
    LET ls == SplitLines(text) IN
    JoinLines(SubSeq(ls, 1, i) \o <<h>> \o SubSeq(ls, i + 1, Len(ls)))

\* text without its i-th line
RemoveLine(text, i) ==
    LET ls == SplitLines(text) IN
    JoinLines(SubSeq(ls, 1, i - 1) \o SubSeq(ls, i + 1, Len(ls)))

(***************************************************************************)
(* Properties of count_bars.                                               *)
(***************************************************************************)

\* C1: a single-voice text made of N bars, each closed by a plain `|`, on one
\* line or several, with no repeat and no final-bar marker, counts N bars.
C1_PlainBarsCounted ==
    (pc = "done" /\ IsPlainMusic(abc_content)) => bar_count = BarsWritten(abc_content)

\* C1 witness: the documented example followed by one more bar on a second
\* line has been counted: 4 bars over two lines.
C1_Witness ==
    /\ pc = "done"
    /\ abc_content = JoinLines(<<ExampleThreeBars, <<"C", "8", " ", "|">>>>)
    /\ IsPlainMusic(abc_content)
    /\ bar_count = 4

\* C2: on a file with voices 1 and 2 the count is the count of the voice-1
\* lines alone, whatever is written under voice 2 and however the blocks
\* are interleaved.
C2_FirstVoiceOnly ==
    (pc = "done" /\ IsTwoVoice(abc_content)) =>
        bar_count = count_bars(VoiceOneMusic(abc_content))

\* C2 witness: voice 1, a longer voice 2, voice 1 again: two bars counted.
C2_Witness ==
    /\ pc = "done"
    /\ abc_content = JoinLines(<<VoiceOneChunk, VoiceTwoChunk, VoiceOneChunk>>)
    /\ IsTwoVoice(abc_content)
    /\ bar_count = 2

\* C7: a passage |: bar_1 | ... | bar_k :| counts as the k bars written.
C7_RepeatCountsWrittenBars ==
    (pc = "done" /\ IsRepeatPassage(abc_content)) => bar_count = BarsWritten(abc_content)

\* C8: putting in or taking out a header, lyric, comment or directive line
\* anywhere in the text leaves the count unchanged.
C8_NonMusicLinesIgnored ==
    pc = "done" =>
        /\ \A i \in 0..Len(lines) : \A h \in NonMusicLines :
               count_bars(InsertLine(abc_content, i, h)) = bar_count
        /\ \A i \in 1..Len(lines) :
               (Len(lines) > 1 /\ LineKind(lines[i]) \in {"field", "lyric", "comment", "directive"})
                   => count_bars(RemoveLine(abc_content, i)) = bar_count

\* the voice marker seen last among the first n lines (0: none)
LastMarker(ls, n) ==
    LET markers == { i \in 1..n : LineKind(ls[i]) = "voice" }
    IN IF markers = {} THEN 0
       ELSE CHOOSE i \in markers : \A j \in markers : j <= i

\* voice 1 is current after the first n lines
InVoiceOne(ls, n) ==
    \/ LastMarker(ls, n) = 0
    \/ VoiceNamed(ls[LastMarker(ls, n)]) = <<"1">>

\* C18: at every line of the scan the in-first-voice flag is true exactly
\* when no voice marker has been seen or the marker seen last names voice 1
\* and no other voice (2, 10, 12, ...), and the music lines kept are the ones
\* read while the flag was true.
C18_VoiceTracking ==
    pc = "scan" =>
        /\ in_first_voice <=> InVoiceOne(lines, idx - 1)
        /\ \A i \in 1..Len(music_lines) :
              \E j \in 1..(idx - 1) :
                  /\ Strip(lines[j]) = music_lines[i]
                  /\ InVoiceOne(lines, j)

\* the bar-line tokens of a text, music line after music line
RECURSIVE TokensOfLines(_)
TokensOfLines(ls) ==
    IF ls = <<>> THEN <<>> ELSE BarTokens(Head(ls)) \o TokensOfLines(Tail(ls))

WrittenTokens(text) == TokensOfLines(MusicLinesOf(text))

\* music whose bars are closed by a plain `|`, but for the last, closed by `|]`
IsFinalBarMusic(text) ==
    LET ls == SplitLines(text)
        toks == WrittenTokens(text)
    IN /\ \A i \in 1..Len(ls) : LineKind(ls[i]) \in {"blank", "music"}
       /\ Len(toks) >= 1
       /\ toks[Len(toks)] = "final"
       /\ \A j \in 1..(Len(toks) - 1) : toks[j] = "bar"

\* C19: music of N >= 1 bars, the first N - 1 closed by a plain `|` and the
\* last by the final-bar marker `|]`, counts N bars.
C19_FinalBarCounted ==
    (pc = "done" /\ IsFinalBarMusic(abc_content)) =>
        bar_count = Len(WrittenTokens(abc_content))

\* C19 witness: the documented example with a closing bar after it, four
\* bars of which the last ends in `|]`, has been counted.
C19_Witness ==
    /\ pc = "done"
    /\ abc_content = JoinLines(<<ExampleThreeBars, <<"C", "8", " ", "|", "]">>>>)
    /\ IsFinalBarMusic(abc_content)
    /\ bar_count = 4

(***************************************************************************)
(* Properties of combine_sections.                                         *)
(***************************************************************************)
\* the section files of the list that exist
AllSectionsExist == \A i \in 1..Len(sections) : fs[sections[i]].exists

\* the sum of count_bars over the existing section files, in list order
RECURSIVE SumFragmentBars(_)
SumFragmentBars(paths) ==
    IF paths = <<>> THEN 0
    ELSE (IF fs[Head(paths)].exists THEN count_bars(fs[Head(paths)].text) ELSE 0)
         + SumFragmentBars(Tail(paths))

\* the text holds a marker line of voice n
HasVoiceBlock(text, n) ==
    \E i \in 1..Len(SplitLines(text)) :
        /\ LineKind(SplitLines(text)[i]) = "voice"
        /\ VoiceNamed(SplitLines(text)[i]) = n

\* C3: for a melodic instrument the bar count of the combined content is the
\* sum of the bar counts of the fragments.
C3_BarsAdditive ==
    (pc = "done" /\ ~is_percussion /\ AllSectionsExist) =>
        count_bars(full_content) = SumFragmentBars(sections)

\* C4: a combined percussion track always holds a V:1 and a V:2 block, and
\* its bar count is the number of voice-1 bars of the fragments.
C4_PercussionTwoVoices ==
    (pc = "done" /\ is_percussion) =>
        /\ HasVoiceBlock(full_content, <<"1">>)
        /\ HasVoiceBlock(full_content, <<"2">>)
        /\ count_bars(full_content) = SumFragmentBars(sections)

\* the section files of the list that exist, and those that do not, in order
ExistingSections == SelectSeq(sections, LAMBDA path : fs[path].exists)
MissingSections == SelectSeq(sections, LAMBDA path : ~fs[path].exists)

\* the parts the fragments at paths give to voice v of the combined track
RECURSIVE PartsOf(_, _)
PartsOf(paths, v) ==
    IF paths = <<>> THEN <<>>
    ELSE LET text == fs[Head(paths)].text
             st == PercSplit(text)
             part == IF ~is_percussion
                     THEN (IF v = 1 THEN <<read_section_file(text)>> ELSE <<>>)
                     ELSE IF v = 1
                          THEN (IF st.v1_music # <<>> THEN <<JoinLines(st.v1_music)>> ELSE <<>>)
                          ELSE (IF st.v2_music # <<>> THEN <<JoinLines(st.v2_music)>> ELSE <<>>)
         IN part \o PartsOf(Tail(paths), v)

\* C11: when some section files of the list do not exist the call still
\* ends, with one warning per missing file, the output written, the content
\* made of exactly the existing fragments in their order, and a bar count
\* that is the sum of the bar counts of the existing fragments.
C11_MissingSkipped ==
    (pc = "done" /\ ~AllSectionsExist) =>
        /\ warnings = MissingSections
        /\ fs[OutputPath] = File(full_content)
        /\ full_content = Assemble(header, is_percussion,
                                   PartsOf(ExistingSections, 1),
                                   PartsOf(ExistingSections, 2))
        /\ count_bars(full_content) = SumFragmentBars(sections)

\* the header of an ABC text: its lines before the first music line
HeaderLinesOf(text) ==
    LET ls == SplitLines(text)
        music == { i \in 1..Len(ls) : LineKind(ls[i]) = "music" }
        first == IF music = {} THEN Len(ls) + 1
                 ELSE CHOOSE i \in music : \A j \in music : i <= j
    IN SubSeq(ls, 1, first - 1)

HasLine(ls, line) == \E i \in 1..Len(ls) : ls[i] = line

ProgramLine(program) == <<"%", "%", "M", "I", "D", "I", " ", "p", "r", "o", "g", "r", "a", "m", " ">> \o program
KeyLine(k) == <<"K", ":">> \o k
ChannelTenLine == <<"%", "%", "M", "I", "D", "I", " ", "c", "h", "a", "n", "n", "e", "l", " ", "1", "0">>

\* the voices a header declares
VoicesDeclared(ls) ==
    { VoiceNamed(ls[i]) : i \in { j \in 1..Len(ls) : LineKind(ls[j]) = "voice" } }

\* C15: a melodic track begins with a header that declares the one voice V:1
\* and carries the MIDI program and the key supplied; a percussion track
\* begins with a header that declares V:1 and V:2, sets MIDI channel 10, and
\* carries neither the program nor the key supplied.
C15_HeaderSelection ==
    pc = "done" =>
        LET hl == HeaderLinesOf(full_content) IN
        IF ~is_percussion
        THEN /\ VoicesDeclared(hl) = { <<"1">> }
             /\ Cardinality({ i \in 1..Len(hl) : LineKind(hl[i]) = "voice" }) = 1
             /\ HasLine(hl, ProgramLine(midi_program))
             /\ HasLine(hl, KeyLine(key))
        ELSE /\ VoicesDeclared(hl) = { <<"1">>, <<"2">> }
             /\ HasLine(hl, ChannelTenLine)
             /\ ~HasLine(hl, ProgramLine(midi_program))
             /\ ~HasLine(hl, KeyLine(key))

\* the music lines of ls written under voice v, cur being the voice current
\* at the first line
RECURSIVE VoiceLines(_, _, _)
VoiceLines(ls, cur, v) ==
    IF ls = <<>> THEN <<>>
    ELSE IF LineKind(Head(ls)) = "voice"
         THEN VoiceLines(Tail(ls), VoiceNamed(Head(ls)), v)
    ELSE (IF cur = v /\ LineKind(Head(ls)) = "music" THEN <<Strip(Head(ls))>> ELSE <<>>)
         \o VoiceLines(Tail(ls), cur, v)

\* the voice-v music of the existing fragments at paths, in order, each
\* fragment read from voice 1
RECURSIVE FragmentVoiceLines(_, _)
FragmentVoiceLines(paths, v) ==
    IF paths = <<>> THEN <<>>
    ELSE (IF fs[Head(paths)].exists
          THEN VoiceLines(SplitLines(fs[Head(paths)].text), <<"1">>, v)
          ELSE <<>>)
         \o FragmentVoiceLines(Tail(paths), v)

MusicOnly(ls) == SelectSeq(ls, LAMBDA l : LineKind(l) = "music")

\* C20: a combined percussion track holds the voice-1 music of the fragments
\* in list order, then one V:2 marker, then the voice-2 music of the
\* fragments in list order, each fragment being read from voice 1.
C20_PercussionOrder ==
    (pc = "done" /\ is_percussion) =>
        LET ls == SplitLines(full_content)
            markers == { i \in 1..Len(ls) :
                           LineKind(ls[i]) = "voice" /\ VoiceNamed(ls[i]) = <<"2">> }
        IN /\ Cardinality(markers) = 1
           /\ \A m \in markers :
                /\ MusicOnly(SubSeq(ls, 1, m - 1)) = FragmentVoiceLines(sections, <<"1">>)
                /\ MusicOnly(SubSeq(ls, m + 1, Len(ls))) = FragmentVoiceLines(sections, <<"2">>)

(***************************************************************************)
(* validate_abc_file (abc_tools_old.py).  The renderer is a black box: a   *)
(* run of it ends in one of four ways, and a completed run leaves some     *)
(* text on stderr.                                                         *)
(***************************************************************************)
ErrorWord == <<"E", "r", "r", "o", "r">>
BarWord == <<"B", "a", "r">>
TimeUnitsWord == <<"t", "i", "m", "e", " ", "u", "n", "i", "t", "s">>

ValidMessage == <<"V", "a", "l", "i", "d", " ", "A", "B", "C", " ", "f", "i", "l", "e">>
TimedOutMessage == <<"a", "b", "c", "2", "m", "i", "d", "i", " ", "t", "i", "m", "e", "d", " ", "o", "u", "t">>
NotFoundMessage ==
    <<"a", "b", "c", "2", "m", "i", "d", "i", " ", "n", "o", "t", " ", "f",
      "o", "u", "n", "d", " ", "-", " ", "p", "l", "e", "a", "s", "e", " ",
      "i", "n", "s", "t", "a", "l", "l", " ", "a", "b", "c", "m", "i", "d",
      "i", " ", "p", "a", "c", "k", "a", "g", "e">>
ErrorPrefix == <<"E", "r", "r", "o", "r", ":", " ">>

Completed(text) == [kind |-> "completed", text |-> text]
TimeoutExpired == [kind |-> "timeout", text |-> <<>>]
RendererNotFound == [kind |-> "not_found", text |-> <<>>]
Raised(text) == [kind |-> "exception", text |-> text]

\* validate_abc_file with the timing check of lines 110-112 left out
validate_abc_file_ErrorOnly(r) ==
    IF r.kind = "completed"
    THEN IF Contains(r.text, ErrorWord)
         THEN [valid |-> FALSE, message |-> r.text]
         ELSE [valid |-> TRUE, message |-> ValidMessage]
    ELSE IF r.kind = "timeout" THEN [valid |-> FALSE, message |-> TimedOutMessage]
    ELSE IF r.kind = "not_found" THEN [valid |-> FALSE, message |-> NotFoundMessage]
    ELSE [valid |-> FALSE, message |-> ErrorPrefix \o r.text]

\* lines 98-121, given how subprocess.run ended
validate_abc_file(r) ==
    IF r.kind = "completed"
    THEN IF Contains(r.text, ErrorWord)
         THEN [valid |-> FALSE, message |-> r.text]
         ELSE IF Contains(r.text, BarWord) /\ Contains(r.text, TimeUnitsWord)
         THEN [valid |-> FALSE, message |-> r.text]
         ELSE [valid |-> TRUE, message |-> ValidMessage]
    ELSE IF r.kind = "timeout" THEN [valid |-> FALSE, message |-> TimedOutMessage]
    ELSE IF r.kind = "not_found" THEN [valid |-> FALSE, message |-> NotFoundMessage]
    ELSE [valid |-> FALSE, message |-> ErrorPrefix \o r.text]

\* what the renderer can leave on stderr: up to MaxPieces pieces, one after
\* the other
StderrPieces ==
    { <<"W", "a", "r", "n", "i", "n", "g">>,
      <<"E", "r", "r", "o", "r">>,
      <<"B", "a", "r", " ", "2">>,
      <<" ", "t", "i", "m", "e", " ", "u", "n", "i", "t", "s">>,
      <<"E", "r", "r">>,
      <<"o", "r">>,
      <<"e", "r", "r", "o", "r">>,
      <<"b", "a", "r">> }

RECURSIVE Concat(_)
Concat(ps) == IF ps = <<>> THEN <<>> ELSE Head(ps) \o Concat(Tail(ps))

StderrTexts == { Concat(ps) : ps \in UNION { [1..n -> StderrPieces] : n \in 0..MaxPieces } }

\* the file validate_abc_file is called on
ArgPath == "track.abc"

RunOutcomes ==
    { Completed(t) : t \in StderrTexts }
    \cup { TimeoutExpired, RendererNotFound, Raised(<<"b", "o", "o", "m">>) }

ValidateInit ==
    /\ pc = "validate_abc_file"
    /\ CountIdle
    /\ CombineIdle
    /\ RenderIdle
    /\ VerifyIdle
    /\ TemplateIdle
    /\ CliIdle
    /\ SongIdle

\* lines 99-104: the renderer runs
RunRenderer ==
    /\ pc = "validate_abc_file"
    /\ \E r \in RunOutcomes : run' = r
    /\ invoked' = Append(invoked, ArgPath)
    /\ pc' = "ran"
    /\ UNCHANGED <<valid, message, NotRender>>

\* lines 106-114
ValidateCompleted ==
    /\ pc = "ran"
    /\ run.kind = "completed"
    /\ valid' = validate_abc_file(run).valid
    /\ message' = validate_abc_file(run).message
    /\ pc' = "done"
    /\ UNCHANGED <<run, invoked, NotRender>>

\* lines 116-121
ValidateFailed ==
    /\ pc = "ran"
    /\ run.kind \in {"timeout", "not_found", "exception"}
    /\ valid' = validate_abc_file(run).valid
    /\ message' = validate_abc_file(run).message
    /\ pc' = "done"
    /\ UNCHANGED <<run, invoked, NotRender>>

ValidateNext ==
    \/ RunRenderer
    \/ ValidateCompleted
    \/ ValidateFailed

SpecValidate == ValidateInit /\ [][ValidateNext]_vars

\* pat occurs in s: s reads some prefix, then pat, then the rest
Occurs(s, pat) ==
    \E n \in 0..Len(s) :
        /\ n + Len(pat) <= Len(s)
        /\ \A k \in 1..Len(pat) : s[n + k] = pat[k]

\* C9: a completed renderer run is a failure, returned with the stderr text,
\* exactly when stderr holds "Error", or holds both "Bar" and "time units";
\* every other completed run returns (True, "Valid ABC file").
C9_StderrClassification ==
    (pc = "done" /\ run.kind = "completed") =>
        LET failure == \/ Occurs(run.text, ErrorWord)
                       \/ Occurs(run.text, BarWord) /\ Occurs(run.text, TimeUnitsWord)
        IN IF failure
           THEN valid = FALSE /\ message = run.text
           ELSE valid = TRUE /\ message = ValidMessage

\* C9 witness: a completed run whose stderr holds "Bar" and "time units" but
\* not "Error" has been classified as a failure.
C9_Witness ==
    /\ pc = "done"
    /\ run.kind = "completed"
    /\ Occurs(run.text, BarWord)
    /\ Occurs(run.text, TimeUnitsWord)
    /\ ~Occurs(run.text, ErrorWord)
    /\ valid = FALSE
    /\ message = run.text

(***************************************************************************)
(* verify_song_consistency (abc_tools_old.py), one step per file.          *)
(***************************************************************************)
\* the *.abc names a song directory can hold, and what they can hold
AbcNames == {"bass.abc", "drums.abc", "vocal.abc"}
TrackTexts == { FragIntro, FragTwoLines, FragKickOnly }

NoFilesMessage == <<"N", "o", " ", "A", "B", "C", " ", "f", "i", "l", "e", "s", " ", "f", "o", "u", "n", "d">>
OkMessage == <<"O", "K">>

\* how the renderer can end on one file of the directory
VerifyOutcomes ==
    { Completed(<<>>), Completed(ErrorWord), TimeoutExpired, RendererNotFound,
      Raised(<<"b", "o", "o", "m">>) }

\* the orders in which glob can list a set of names
Orders(names) ==
    { o \in [1..Cardinality(names) -> names] : \A i, j \in DOMAIN o : i # j => o[i] # o[j] }

\* all_match with the first and the last count compared, not all of them
AllMatchEnds(order, counts) ==
    counts[order[1]] = counts[order[Len(order)]]

\* line 281-282: len(set(bar_counts)) == 1
AllMatch(order, counts) ==
    Cardinality({ counts[order[i]] : i \in 1..Len(order) }) = 1

\* line 283: bar_counts[0] if bar_counts else 0
ExpectedBars(order, counts) ==
    IF order # <<>> THEN counts[order[1]] ELSE 0

VerifyInit ==
    /\ pc = "verify_song_consistency"
    /\ fs \in [AbcNames -> { File(t) : t \in TrackTexts } \cup {NoFile}]
    /\ CombineLocalsIdle
    /\ CountIdle
    /\ RenderIdle
    /\ VerifyIdle
    /\ TemplateIdle
    /\ CliIdle
    /\ SongIdle

\* lines 256-259: no file matches
VerifyNoFiles ==
    /\ pc = "verify_song_consistency"
    /\ \A n \in AbcNames : ~fs[n].exists
    /\ results' = [error |-> NoFilesMessage]
    /\ pc' = "done"
    /\ UNCHANGED <<abc_files, file_idx, render_vars, NotVerify>>

\* lines 256-266
VerifyStart ==
    /\ pc = "verify_song_consistency"
    /\ \E n \in AbcNames : fs[n].exists
    /\ abc_files' \in Orders({ n \in AbcNames : fs[n].exists })
    /\ results' = [song_dir |-> "song", files |-> <<>>, all_match |-> FALSE,
                   bar_counts |-> <<>>]
    /\ file_idx' = 1
    /\ pc' = "verify_files"
    /\ UNCHANGED <<render_vars, NotVerify>>

\* VerifyFile giving up on the whole directory at the first file the
\* renderer fails on
VerifyFileAbort ==
    /\ pc = "verify_files"
    /\ file_idx <= Len(abc_files)
    /\ \E r \in VerifyOutcomes :
         LET name == abc_files[file_idx]
             counted == count_bars(fs[name].text)
             v == validate_abc_file(r)
         IN /\ run' = r
            /\ invoked' = Append(invoked, name)
            /\ valid' = v.valid
            /\ message' = v.message
            /\ IF v.valid
               THEN /\ results' =
                         [results EXCEPT
                            !.files = (name :> [bars |-> counted, valid |-> TRUE,
                                                message |-> OkMessage]) @@ @,
                            !.bar_counts = (name :> counted) @@ @]
                    /\ file_idx' = file_idx + 1
                    /\ pc' = pc
               ELSE /\ results' = [error |-> v.message]
                    /\ file_idx' = file_idx
                    /\ pc' = "done"
    /\ UNCHANGED <<abc_files, NotVerify>>

\* VerifyFile rewriting a file whose count differs from the first file's
VerifyFileAutoFix ==
    /\ pc = "verify_files"
    /\ file_idx <= Len(abc_files)
    /\ \E r \in VerifyOutcomes :
         LET name == abc_files[file_idx]
             first == fs[abc_files[1]].text
             differs == count_bars(fs[name].text) # count_bars(first)
             counted == IF differs THEN count_bars(first) ELSE count_bars(fs[name].text)
             v == validate_abc_file(r)
         IN /\ run' = r
            /\ invoked' = Append(invoked, name)
            /\ valid' = v.valid
            /\ message' = v.message
            /\ fs' = IF differs THEN [fs EXCEPT ![name] = File(first)] ELSE fs
            /\ results' =
                 [results EXCEPT
                    !.files = (name :> [bars |-> counted, valid |-> v.valid,
                                        message |-> IF ~v.valid THEN v.message ELSE OkMessage])
                              @@ @,
                    !.bar_counts = (name :> counted) @@ @]
    /\ file_idx' = file_idx + 1
    /\ UNCHANGED <<pc, abc_files, count_vars, inject_vars, lyrics_vars, sections, is_percussion, midi_program,
                   key, sec_idx, header, voice1_parts, voice2_parts, warnings,
                   full_content, template_vars, cli_vars, song_vars>>

\* lines 268-278, one file
VerifyFile ==
    /\ pc = "verify_files"
    /\ file_idx <= Len(abc_files)
    /\ \E r \in VerifyOutcomes :
         LET name == abc_files[file_idx]
             counted == count_bars(fs[name].text)
             v == validate_abc_file(r)
         IN /\ run' = r
            /\ invoked' = Append(invoked, name)
            /\ valid' = v.valid
            /\ message' = v.message
            /\ results' =
                 [results EXCEPT
                    !.files = (name :> [bars |-> counted, valid |-> v.valid,
                                        message |-> IF ~v.valid THEN v.message ELSE OkMessage])
                              @@ @,
                    !.bar_counts = (name :> counted) @@ @]
    /\ file_idx' = file_idx + 1
    /\ UNCHANGED <<pc, abc_files, NotVerify>>

\* lines 280-285
VerifyReturn ==
    /\ pc = "verify_files"
    /\ file_idx > Len(abc_files)
    /\ results' = [song_dir |-> results.song_dir,
                   files |-> results.files,
                   bar_counts |-> results.bar_counts,
                   all_match |-> AllMatch(abc_files, results.bar_counts),
                   expected_bars |-> ExpectedBars(abc_files, results.bar_counts)]
    /\ pc' = "done"
    /\ UNCHANGED <<abc_files, file_idx, render_vars, NotVerify>>

VerifyNext ==
    \/ VerifyNoFiles
    \/ VerifyStart
    \/ VerifyFile
    \/ VerifyReturn

SpecVerify == VerifyInit /\ [][VerifyNext]_vars

\* the *.abc files of the directory
AbcFilesPresent == { n \in AbcNames : fs[n].exists }

\* the files whose bar count is not the one most files have
Discrepant ==
    { n \in AbcFilesPresent :
        \E m \in AbcFilesPresent : count_bars(fs[m].text) # count_bars(fs[n].text) }

\* C5: over a directory with at least one ABC file, all_match is true exactly
\* when every file has the same bar count, and when it is false the result
\* lists each discrepant file by name with its bar count.
C5_AllMatchIffSameCount ==
    (pc = "done" /\ AbcFilesPresent # {}) =>
        /\ "all_match" \in DOMAIN results
        /\ results.all_match <=>
             (\A n, m \in AbcFilesPresent : count_bars(fs[n].text) = count_bars(fs[m].text))
        /\ ~results.all_match =>
             \A n \in Discrepant :
                 /\ n \in DOMAIN results.bar_counts
                 /\ results.bar_counts[n] = count_bars(fs[n].text)
                 /\ n \in DOMAIN results.files
                 /\ results.files[n].bars = count_bars(fs[n].text)

\* C5 witness: three files, two of 2 bars and one of 3, the odd one neither
\* first nor last in glob order: all_match is false.
C5_Witness ==
    /\ pc = "done"
    /\ Len(abc_files) = 3
    /\ count_bars(fs[abc_files[1]].text) = 2
    /\ count_bars(fs[abc_files[2]].text) = 3
    /\ count_bars(fs[abc_files[3]].text) = 2
    /\ results.all_match = FALSE
    /\ results.bar_counts[abc_files[2]] = 3

\* the renderer failed on the file: not installed, timed out, raised, or
\* reported an error
RendererFailed(r) ==
    \/ r.kind \in {"not_found", "timeout", "exception"}
    \/ r.kind = "completed" /\ Occurs(r.text, ErrorWord)

\* C12: a renderer failure on one file is that file's result and no more: the
\* file gets its entry with its bar count, valid = false and a message, the
\* entries of the other files stay, the loop goes on to the next file, and at
\* the end every ABC file has an entry and all_match is computed.
C12_FailurePerFile ==
    /\ [][(pc = "verify_files" /\ file_idx <= Len(abc_files)) =>
             LET name == abc_files[file_idx] IN
             /\ pc' = "verify_files"
             /\ file_idx' = file_idx + 1
             /\ "files" \in DOMAIN results'
             /\ name \in DOMAIN results'.files
             /\ results'.files[name].bars = count_bars(fs[name].text)
             /\ RendererFailed(run') =>
                   /\ results'.files[name].valid = FALSE
                   /\ results'.files[name].message \notin { <<>>, OkMessage }
             /\ \A n \in DOMAIN results.files \ {name} :
                   results'.files[n] = results.files[n]]_vars
    /\ []((pc = "done" /\ AbcFilesPresent # {}) =>
             /\ "files" \in DOMAIN results
             /\ DOMAIN results.files = AbcFilesPresent
             /\ results.all_match = AllMatch(abc_files, results.bar_counts))

\* C12 witness: three files of equal count, the renderer timed out on the
\* first and passed the other two: three entries, all_match true.
C12_Witness ==
    /\ pc = "done"
    /\ Len(abc_files) = 3
    /\ DOMAIN results.files = AbcNames
    /\ results.files[abc_files[1]].valid = FALSE
    /\ results.files[abc_files[1]].message = TimedOutMessage
    /\ results.files[abc_files[2]].valid
    /\ results.files[abc_files[3]].valid
    /\ results.all_match

\* C16: no step of the check creates, removes or rewrites a file of the
\* song directory.
C16_FilesUntouched ==
    [][fs' = fs]_vars

\* C16 witness: the check has ended on a directory whose counts differ and
\* on which the renderer rejected a file.
C16_Witness ==
    /\ pc = "done"
    /\ Len(abc_files) = 3
    /\ ~results.all_match
    /\ \E n \in AbcNames : ~results.files[n].valid
    /\ \A n \in AbcNames : fs[n].exists /\ results.bar_counts[n] = count_bars(fs[n].text)

(***************************************************************************)
(* SongStructure and create_section_template (section_tools.py).           *)
(***************************************************************************)
LowerCase == <<"a", "b", "c", "d", "e", "f", "g", "h", "i", "j", "k", "l", "m",
               "n", "o", "p", "q", "r", "s", "t", "u", "v", "w", "x", "y", "z">>
UpperCase == <<"A", "B", "C", "D", "E", "F", "G", "H", "I", "J", "K", "L", "M",
               "N", "O", "P", "Q", "R", "S", "T", "U", "V", "W", "X", "Y", "Z">>

IsLetter(c) == \E k \in 1..26 : c = LowerCase[k] \/ c = UpperCase[k]
UpperOf(c) == IF \E k \in 1..26 : c = LowerCase[k]
              THEN UpperCase[CHOOSE k \in 1..26 : c = LowerCase[k]] ELSE c
LowerOf(c) == IF \E k \in 1..26 : c = UpperCase[k]
              THEN LowerCase[CHOOSE k \in 1..26 : c = UpperCase[k]] ELSE c

\* str.title(): a letter that follows no letter is put in upper case, every
\* other letter in lower case
TitleCase(s) ==
    [k \in 1..Len(s) |->
        IF k = 1 \/ ~IsLetter(s[k - 1]) THEN UpperOf(s[k]) ELSE LowerOf(s[k])]

Digits == <<"0", "1", "2", "3", "4", "5", "6", "7", "8", "9">>

\* str(n) for n >= 0
RECURSIVE IntToStr(_)
IntToStr(n) ==
    IF n < 10 THEN <<Digits[n + 1]>> ELSE IntToStr(n \div 10) \o <<Digits[(n % 10) + 1]>>

\* sep.join(parts)
RECURSIVE JoinWith(_, _)
JoinWith(parts, sep) ==
    IF parts = <<>> THEN <<>>
    ELSE IF Len(parts) = 1 THEN parts[1]
    ELSE parts[1] \o sep \o JoinWith(Tail(parts), sep)

\* the structure file of the model
SongTitle == <<"T", "e", "s", "t", " ", "S", "o", "n", "g">>
SongTimeSig == <<"4", "/", "4">>
SongKey == <<"C">>
Intro == <<"i", "n", "t", "r", "o">>
Verse == <<"v", "e", "r", "s", "e">>
Solo == <<"s", "o", "l", "o">>
Bass == <<"b", "a", "s", "s">>
Drums == <<"d", "r", "u", "m", "s">>

SectionNames == { Intro, Verse }

\* line 98-100: the instruments of the structure file and their percussion flag
is_percussion_instrument(ins) == ins = Drums

\* lines 118-129
TemplateHeader(sec, ins, perc) ==
    <<"X", ":", "1", NL, "T", ":">> \o SongTitle \o <<" ", "-", " ">> \o TitleCase(sec) \o <<" ", "-", " ">> \o TitleCase(ins)
    \o <<NL, "M", ":">> \o SongTimeSig \o <<NL, "L", ":", "1", "/", "8", NL, "K", ":">>
    \o (IF ~perc THEN SongKey ELSE <<"C", " ", "p", "e", "r", "c">>) \o <<NL>>
    \o (IF perc THEN <<"V", ":", "1", " ", "n", "a", "m", "e", "=", "\"", "K", "i", "c", "k", "\"", NL>> ELSE <<>>)

KickPattern == <<"C", "4", " ", "C", "4">>
SnarePattern == <<"z", "4", " ", "E", "4">>
RestPattern == <<"z", "8">>
BarSep == <<" ", "|", " ">>
BarEnd == <<" ", "|">>
SnareVoice == <<NL, "V", ":", "2", " ", "n", "a", "m", "e", "=", "\"", "S", "n", "a", "r", "e", "\"", NL>>

\* line 154
ExpectedComment(n) == <<NL, "%", " ", "E", "x", "p", "e", "c", "t", "e", "d", ":", " ">> \o IntToStr(n) \o <<" ", "b", "a", "r", "s", NL>>

\* lines 135, 142-144, 151: the bars joined and closed
TemplateBody(perc, kicks, snares, rests) ==
    IF perc
    THEN (JoinWith(kicks, BarSep) \o BarEnd)
         \o (SnareVoice \o JoinWith(snares, BarSep) \o BarEnd)
    ELSE JoinWith(rests, BarSep) \o BarEnd

TemplatePath == "sections/template.abc"

TemplateInit ==
    /\ pc = "create_section_template"
    /\ section_specs \in [SectionNames -> 0..MaxBars]
    /\ section_name \in SectionNames \cup {Solo}
    /\ instrument \in {Bass, Drums}
    /\ output_file \in {NoPath, TemplatePath}
    /\ fs = [f \in {TemplatePath} |-> NoFile]
    /\ expected_bars = -1
    /\ is_perc = FALSE
    /\ tpl_header = <<>>
    /\ kick_bars = <<>>
    /\ snare_bars = <<>>
    /\ bars = <<>>
    /\ content = <<>>
    /\ CombineLocalsIdle
    /\ CountIdle
    /\ RenderIdle
    /\ VerifyIdle
    /\ CliIdle
    /\ SongIdle

\* lines 88-92, 114: get_section_bars raises ValueError
TemplateUnknownSection ==
    /\ pc = "create_section_template"
    /\ section_name \notin DOMAIN section_specs
    /\ pc' = "raised"
    /\ UNCHANGED <<combine_vars, template_vars, NotTemplate>>

\* lines 114-129
TemplateStart ==
    /\ pc = "create_section_template"
    /\ section_name \in DOMAIN section_specs
    /\ expected_bars' = section_specs[section_name]
    /\ is_perc' = is_percussion_instrument(instrument)
    /\ tpl_header' = TemplateHeader(section_name, instrument, is_perc')
    /\ pc' = (IF is_perc' THEN "kick" ELSE "bars")
    /\ UNCHANGED <<section_specs, section_name, instrument, output_file, kick_bars,
                   snare_bars, bars, content, combine_vars, NotTemplate>>

\* lines 132-133, one iteration
TemplateKickBar ==
    /\ pc = "kick"
    /\ Len(kick_bars) < expected_bars
    /\ kick_bars' = Append(kick_bars, KickPattern)
    /\ UNCHANGED <<pc, section_specs, section_name, instrument, output_file, expected_bars,
                   is_perc, tpl_header, snare_bars, bars, content, combine_vars, NotTemplate>>

\* line 135-138: the kick loop is over
TemplateKickDone ==
    /\ pc = "kick"
    /\ Len(kick_bars) >= expected_bars
    /\ pc' = "snare"
    /\ UNCHANGED <<combine_vars, template_vars, NotTemplate>>

\* lines 139-140, one iteration
TemplateSnareBar ==
    /\ pc = "snare"
    /\ Len(snare_bars) < expected_bars
    /\ snare_bars' = Append(snare_bars, SnarePattern)
    /\ UNCHANGED <<pc, section_specs, section_name, instrument, output_file, expected_bars,
                   is_perc, tpl_header, kick_bars, bars, content, combine_vars, NotTemplate>>

\* lines 148-149, one iteration
TemplateBar ==
    /\ pc = "bars"
    /\ Len(bars) < expected_bars
    /\ bars' = Append(bars, RestPattern)
    /\ UNCHANGED <<pc, section_specs, section_name, instrument, output_file, expected_bars,
                   is_perc, tpl_header, kick_bars, snare_bars, content, combine_vars, NotTemplate>>

\* lines 142-165: join, add the comment, write the file, return
TemplateReturn ==
    /\ \/ pc = "snare" /\ Len(snare_bars) >= expected_bars
       \/ pc = "bars" /\ Len(bars) >= expected_bars
    /\ content' = tpl_header \o TemplateBody(is_perc, kick_bars, snare_bars, bars)
                  \o ExpectedComment(expected_bars)
    /\ fs' = (IF output_file # NoPath
              THEN [fs EXCEPT ![output_file] = File(content')] ELSE fs)
    /\ pc' = "done"
    /\ UNCHANGED <<sections, is_percussion, midi_program, key, sec_idx, header,
                   voice1_parts, voice2_parts, warnings, full_content,
                   section_specs, section_name, instrument, output_file, expected_bars,
                   is_perc, tpl_header, kick_bars, snare_bars, bars, NotTemplate>>

TemplateNext ==
    \/ TemplateUnknownSection
    \/ TemplateStart
    \/ TemplateKickBar
    \/ TemplateKickDone
    \/ TemplateSnareBar
    \/ TemplateBar
    \/ TemplateReturn

SpecTemplate == TemplateInit /\ [][TemplateNext]_vars

\* C6: for every configured bar count N >= 0 and every instrument, regular or
\* percussion, the template generated for the section counts exactly N bars.
C6_TemplateRoundTrip ==
    (pc = "done" /\ expected_bars >= 0) => count_bars(content) = expected_bars

\* ---------------------------------------------------------------------------
\* The command lines of abc_tools and section_tools, and their exit codes
\* ---------------------------------------------------------------------------

AbcTools == "abc_tools"
SectionTools == "section_tools"

\* the paths given on the command line
StructurePath == "structure.yaml"
SectionPath == "sections/intro-bass.abc"
SectionFileName == <<"i", "n", "t", "r", "o", "-", "b", "a", "s", "s", ".", "a", "b", "c">>

\* U+2713 and U+2717, the marks that open a validation message
CheckMark == "v"
CrossMark == "x"

FileNotFoundPrefix == <<"F", "i", "l", "e", " ", "n", "o", "t", " ", "f", "o", "u", "n", "d", ":", " ">>
SectionPathText == <<"s", "e", "c", "t", "i", "o", "n", "s", "/", "i", "n", "t", "r", "o", "-", "b", "a", "s", "s", ".", "a", "b", "c">>
BarsCorrect == <<" ", "b", "a", "r", "s", " ", "(", "c", "o", "r", "r", "e", "c", "t", ")">>
BarsExpected == <<" ", "b", "a", "r", "s", " ", "(", "e", "x", "p", "e", "c", "t", "e", "d", " ">>

\* validate_section_file accepting a file with bars to spare
validate_section_file_AtLeast(file, expected) ==
    IF ~file.exists
    THEN [valid |-> FALSE, message |-> FileNotFoundPrefix \o SectionPathText]
    ELSE LET actual_bars == count_bars(file.text)
         IN  IF actual_bars >= expected
             THEN [valid |-> TRUE,
                   message |-> <<CheckMark, " ">> \o SectionFileName \o <<":", " ">>
                               \o IntToStr(actual_bars) \o BarsCorrect]
             ELSE [valid |-> FALSE,
                   message |-> <<CrossMark, " ">> \o SectionFileName \o <<":", " ">>
                               \o IntToStr(actual_bars) \o BarsExpected
                               \o IntToStr(expected) \o <<")">>]

\* section_tools.validate_section_file, once the section is known
validate_section_file(file, expected) ==
    IF ~file.exists
    THEN [valid |-> FALSE, message |-> FileNotFoundPrefix \o SectionPathText]
    ELSE LET actual_bars == count_bars(file.text)
         IN  IF actual_bars = expected
             THEN [valid |-> TRUE,
                   message |-> <<CheckMark, " ">> \o SectionFileName \o <<":", " ">>
                               \o IntToStr(actual_bars) \o BarsCorrect]
             ELSE [valid |-> FALSE,
                   message |-> <<CrossMark, " ">> \o SectionFileName \o <<":", " ">>
                               \o IntToStr(actual_bars) \o BarsExpected
                               \o IntToStr(expected) \o <<")">>]

CliStart ==
    /\ pc = "cli"
    /\ exit_code = -1
    /\ uncaught = "none"
    /\ CountIdle
    /\ CombineLocalsIdle
    /\ RenderIdle
    /\ VerifyIdle
    /\ TemplateLocalsIdle
    /\ SongIdle

CliInit ==
    /\ CliStart
    /\ \/ /\ tool = AbcTools
          /\ command \in {"count"}
          /\ fs \in [{ArgPath} -> { File(t) : t \in TrackTexts } \cup {NoFile}]
          /\ section_specs = <<>> /\ section_name = <<>> /\ instrument = <<>>
       \/ /\ tool = AbcTools
          /\ command \in {"validate", "none"}
          /\ fs = [f \in {ArgPath} |-> File(FragIntro)]
          /\ section_specs = <<>> /\ section_name = <<>> /\ instrument = <<>>
       \/ /\ tool = AbcTools
          /\ command = "verify"
          /\ fs \in [AbcNames -> { File(t) : t \in TrackTexts } \cup {NoFile}]
          /\ section_specs = <<>> /\ section_name = <<>> /\ instrument = <<>>
       \/ /\ tool = SectionTools
          /\ command = "validate"
          /\ \E structure \in {File(<<>>), NoFile},
                section \in { File(t) : t \in TrackTexts } \cup {NoFile} :
                fs = [f \in {StructurePath, SectionPath} |->
                          IF f = StructurePath THEN structure ELSE section]
          /\ section_specs \in [SectionNames -> 0..MaxBars]
          /\ section_name \in SectionNames \cup {Solo}
          /\ instrument = Bass

\* abc_tools lines 334-335: read_text raises on a missing file, and the
\* uncaught exception ends the process with code 1
AbcToolsCountMissing ==
    /\ pc = "cli" /\ tool = AbcTools /\ command = "count"
    /\ ~fs[ArgPath].exists
    /\ exit_code' = 1
    /\ uncaught' = "FileNotFoundError"
    /\ pc' = "exited"
    /\ UNCHANGED <<tool, command, count_vars, inject_vars, lyrics_vars, combine_vars, render_vars,
                   verify_vars, template_vars, song_vars>>

\* abc_tools lines 334-336
AbcToolsCount ==
    /\ pc = "cli" /\ tool = AbcTools /\ command = "count"
    /\ fs[ArgPath].exists
    /\ abc_content' = fs[ArgPath].text
    /\ pc' = "count_bars"
    /\ UNCHANGED <<lines, idx, in_first_voice, music_lines, bar_count, NotCount>>

\* abc_tools line 337, then the end of the script
AbcToolsCountPrint ==
    /\ pc = "done" /\ tool = AbcTools /\ command = "count"
    /\ exit_code' = 0
    /\ uncaught' = "none"
    /\ pc' = "exited"
    /\ UNCHANGED <<tool, command, count_vars, inject_vars, lyrics_vars, combine_vars, render_vars,
                   verify_vars, template_vars, song_vars>>

\* abc_tools lines 339-340
AbcToolsValidate ==
    /\ pc = "cli" /\ tool = AbcTools /\ command = "validate"
    /\ pc' = "validate_abc_file"
    /\ UNCHANGED <<render_vars, NotRender>>

\* abc_tools lines 341-343, then the end of the script: no sys.exit
AbcToolsValidatePrint ==
    /\ pc = "done" /\ tool = AbcTools /\ command = "validate"
    /\ exit_code' = 0
    /\ uncaught' = "none"
    /\ pc' = "exited"
    /\ UNCHANGED <<tool, command, count_vars, inject_vars, lyrics_vars, combine_vars, render_vars,
                   verify_vars, template_vars, song_vars>>

\* abc_tools lines 345-346
AbcToolsVerify ==
    /\ pc = "cli" /\ tool = AbcTools /\ command = "verify"
    /\ pc' = "verify_song_consistency"
    /\ UNCHANGED <<verify_vars, render_vars, NotVerify>>

\* abc_tools line 347 and print_validation_report (lines 288-310): the report
\* reads results['song_dir'] first, a KeyError on the error result; it
\* returns nothing and the script ends without sys.exit
AbcToolsVerifyReport ==
    /\ pc = "done" /\ tool = AbcTools /\ command = "verify"
    /\ exit_code' = IF "song_dir" \in DOMAIN results THEN 0 ELSE 1
    /\ uncaught' = IF "song_dir" \in DOMAIN results THEN "none" ELSE "KeyError"
    /\ pc' = "exited"
    /\ UNCHANGED <<tool, command, count_vars, inject_vars, lyrics_vars, combine_vars, render_vars,
                   verify_vars, template_vars, song_vars>>

\* abc_tools lines 349-350
AbcToolsHelp ==
    /\ pc = "cli" /\ tool = AbcTools /\ command = "none"
    /\ exit_code' = 0
    /\ uncaught' = "none"
    /\ pc' = "exited"
    /\ UNCHANGED <<tool, command, count_vars, inject_vars, lyrics_vars, combine_vars, render_vars,
                   verify_vars, template_vars, song_vars>>

\* section_tools line 324 (SongStructure.__init__, lines 40-42): open raises
\* on a missing structure file
SectionToolsStructureMissing ==
    /\ pc = "cli" /\ tool = SectionTools /\ command = "validate"
    /\ ~fs[StructurePath].exists
    /\ exit_code' = 1
    /\ uncaught' = "FileNotFoundError"
    /\ pc' = "exited"
    /\ UNCHANGED <<tool, command, count_vars, inject_vars, lyrics_vars, combine_vars, render_vars,
                   verify_vars, template_vars, song_vars>>

\* section_tools lines 324-330 with validate_section_file (lines 168-189)
SectionToolsValidate ==
    /\ pc = "cli" /\ tool = SectionTools /\ command = "validate"
    /\ fs[StructurePath].exists
    /\ ~fs[SectionPath].exists \/ section_name \in DOMAIN section_specs
    /\ LET r == validate_section_file(fs[SectionPath],
                    IF section_name \in DOMAIN section_specs
                    THEN section_specs[section_name] ELSE 0)
       IN  /\ valid' = r.valid
           /\ message' = r.message
    /\ pc' = "validated"
    /\ UNCHANGED <<run, invoked, NotRender>>

\* section_tools line 183 (get_section_bars, lines 88-92): ValueError, uncaught
SectionToolsUnknownSection ==
    /\ pc = "cli" /\ tool = SectionTools /\ command = "validate"
    /\ fs[StructurePath].exists
    /\ fs[SectionPath].exists
    /\ section_name \notin DOMAIN section_specs
    /\ exit_code' = 1
    /\ uncaught' = "ValueError"
    /\ pc' = "exited"
    /\ UNCHANGED <<tool, command, count_vars, inject_vars, lyrics_vars, combine_vars, render_vars,
                   verify_vars, template_vars, song_vars>>

\* section_tools lines 331-332
SectionToolsValidateExit ==
    /\ pc = "validated" /\ tool = SectionTools /\ command = "validate"
    /\ exit_code' = IF valid THEN 0 ELSE 1
    /\ uncaught' = "none"
    /\ pc' = "exited"
    /\ UNCHANGED <<tool, command, count_vars, inject_vars, lyrics_vars, combine_vars, render_vars,
                   verify_vars, template_vars, song_vars>>

CliNext ==
    \/ AbcToolsCountMissing
    \/ AbcToolsCount
    \/ CountBarsSplit
    \/ CountBarsScan
    \/ CountBarsReturn
    \/ AbcToolsCountPrint
    \/ AbcToolsValidate
    \/ RunRenderer
    \/ ValidateCompleted
    \/ ValidateFailed
    \/ AbcToolsValidatePrint
    \/ AbcToolsVerify
    \/ VerifyNoFiles
    \/ VerifyStart
    \/ VerifyFile
    \/ VerifyReturn
    \/ AbcToolsVerifyReport
    \/ AbcToolsHelp
    \/ SectionToolsStructureMissing
    \/ SectionToolsValidate
    \/ SectionToolsUnknownSection
    \/ SectionToolsValidateExit

SpecCLI == CliInit /\ [][CliNext]_vars

\* the outcome the command line was asked to report
SectionBarsRight ==
    /\ fs[StructurePath].exists
    /\ fs[SectionPath].exists
    /\ section_name \in DOMAIN section_specs
    /\ count_bars(fs[SectionPath].text) = section_specs[section_name]

CliFailed ==
    \/ /\ tool = AbcTools /\ command = "count"
       /\ ~fs[ArgPath].exists
    \/ /\ tool = AbcTools /\ command = "validate"
       /\ ~valid
    \/ /\ tool = AbcTools /\ command = "verify"
       /\ \/ \A n \in AbcNames : ~fs[n].exists
          \/ Discrepant # {}
    \/ /\ tool = SectionTools /\ command = "validate"
       /\ ~SectionBarsRight

CliSucceeded ==
    \/ /\ tool = AbcTools /\ command = "count"
       /\ fs[ArgPath].exists
    \/ /\ tool = AbcTools /\ command = "validate"
       /\ valid
    \/ /\ tool = AbcTools /\ command = "verify"
       /\ \E n \in AbcNames : fs[n].exists
       /\ Discrepant = {}
       /\ \A n \in DOMAIN results.files : results.files[n].valid
    \/ /\ tool = SectionTools /\ command = "validate"
       /\ SectionBarsRight

\* C10: a command that has exited returned code 1 when its input was missing
\* or failed validation (the renderer reported the file invalid, the bar
\* counts of a song mismatch, a section file is missing or has the wrong bar
\* count), and code 0 when it succeeded.
C10_ExitCodes ==
    pc = "exited" =>
        /\ CliFailed => exit_code = 1
        /\ CliSucceeded => exit_code = 0

\* C13: validate_section_file answers (False, "File not found ...") for a
\* file that does not exist; for one that exists it answers valid exactly
\* when count_bars of its content is the bar count the structure gives the
\* section, with "correct" in the message when valid and "expected <N>", N
\* the expected count, when not.
C13_ValidateSectionFile ==
    pc = "validated" =>
        IF ~fs[SectionPath].exists
        THEN /\ ~valid
             /\ StartsWith(message, <<"F", "i", "l", "e", " ", "n", "o", "t", " ", "f", "o", "u", "n", "d">>)
        ELSE LET expected == section_specs[section_name] IN
             /\ valid <=> (count_bars(fs[SectionPath].text) = expected)
             /\ valid => Occurs(message, <<"c", "o", "r", "r", "e", "c", "t">>)
             /\ ~valid => Occurs(message, <<"e", "x", "p", "e", "c", "t", "e", "d", " ">> \o IntToStr(expected))

\* C13 witness: a two-bar file validated against a section of four bars.
C13_Witness ==
    /\ pc = "validated"
    /\ fs[SectionPath] = File(FragIntro)
    /\ section_name = Intro
    /\ section_specs[Intro] = 4
    /\ ~valid
    /\ Occurs(message, <<"2", " ", "b", "a", "r", "s", " ", "(", "e", "x", "p", "e", "c", "t", "e", "d", " ", "4", ")">>)

(***************************************************************************)
(* build_song.py and the entry of generate_song.py: a song directory, its  *)
(* configuration file, and what the run writes.                            *)
(***************************************************************************)
MaxArrangement == 3

BuildSong == "build_song"
GenerateSong == "generate_song"

SongDir == "song"
SectionsDir == "song/sections"
GeneratedDir == "song/.generated"
GeneratedSectionsDir == "song/.generated/sections"
SongYaml == "song/song.yaml"

\* build_song line 79, line 86
SectionFileOf(section, ins) ==
    IF section = Intro
    THEN (IF ins = Bass THEN "sections/intro-bass.abc" ELSE "sections/intro-drums.abc")
    ELSE (IF ins = Bass THEN "sections/verse-bass.abc" ELSE "sections/verse-drums.abc")

OutputFileOf(ins) == IF ins = Bass THEN "bass.abc" ELSE "drums.abc"

SectionFilePaths == { SectionFileOf(sec, ins) : sec \in SectionNames, ins \in {Bass, Drums} }

\* the fragment authored for a section of an instrument
\* drums of the intro: kick 2 bars, snare 2 bars
FragDrumsIntro ==
    <<"K", ":", "C", " ", "p", "e", "r", "c", NL, "V", ":", "1", " ", "n",
      "a", "m", "e", "=", "\"", "K", "i", "c", "k", "\"", NL, "C", "4", " ",
      "C", "4", " ", "|", " ", "C", "4", " ", "C", "4", " ", "|", NL, "V",
      ":", "2", " ", "n", "a", "m", "e", "=", "\"", "S", "n", "a", "r", "e",
      "\"", NL, "z", "4", " ", "E", "4", " ", "|", " ", "z", "4", " ", "E",
      "4", " ", "|">>

\* drums of the verse: 3 bars, the snare written first, the kick closed by
\* the final-bar marker
FragDrumsVerse ==
    <<"K", ":", "C", " ", "p", "e", "r", "c", NL, "V", ":", "2", NL, "z",
      "8", " ", "|", " ", "z", "8", " ", "|", " ", "z", "8", " ", "|", NL,
      "V", ":", "1", NL, "C", "8", " ", "|", " ", "C", "8", " ", "|", " ",
      "C", "8", " ", "|", "]">>

\* the fragments of the song: intro 2 bars, verse 3 bars, for both instruments
AuthoredText(path) ==
    IF path = "sections/intro-bass.abc" THEN FragIntro
    ELSE IF path = "sections/verse-bass.abc" THEN FragTwoLines
    ELSE IF path = "sections/intro-drums.abc" THEN FragDrumsIntro
    ELSE FragDrumsVerse

\* build_song lines 73-74: program and percussion flag of an instrument
ProgramOf(ins) == IF ins = Bass THEN <<"3", "3">> ELSE <<"0">>

Arrangements == UNION { [1..n -> SectionNames] : n \in 0..MaxArrangement }
InstrumentLists == { <<>>, <<Bass>>, <<Bass, Drums>>, <<Drums, Bass>> }

\* generate_song line 180
RequiredFields == {"song", "sections", "instruments"}

GeneratedFiles ==
    { "song/.generated/structure.yaml", "song/.generated/lyrics.yaml",
      "song/.generated/chords.yaml" }

SongLocalsIdle ==
    /\ exit_code = -1
    /\ uncaught = "none"
    /\ inst_idx = 0
    /\ LoopIdle
    /\ InjectIdle
    /\ LyricsIdle
    /\ CountIdle
    /\ CombineLocalsIdle
    /\ RenderIdle
    /\ VerifyIdle
    /\ TemplateIdle

BuildInit ==
    /\ pc = "build_song"
    /\ tool = BuildSong
    /\ command \in {"build", "usage"}
    /\ dirs \in { {}, {SongDir}, {SongDir, SectionsDir} }
    /\ \E present \in SUBSET SectionFilePaths, structure_file \in {File(<<>>), NoFile} :
          /\ SectionsDir \notin dirs => present = {}
          /\ fs = [path \in SectionFilePaths \cup AbcNames \cup {StructurePath} |->
                      IF path \in present THEN File(AuthoredText(path))
                      ELSE IF path = StructurePath THEN structure_file
                      ELSE NoFile]
    /\ config \in { [loaded |-> FALSE, structure |-> a, instruments |-> l] :
                       a \in Arrangements, l \in InstrumentLists }
    /\ fs[StructurePath].exists \/ (config.structure = <<>> /\ config.instruments = <<>>)
    /\ SongLocalsIdle

\* build_song lines 109-111
BuildUsage ==
    /\ pc = "build_song" /\ tool = BuildSong
    /\ command = "usage"
    /\ exit_code' = 1
    /\ uncaught' = "none"
    /\ pc' = "exited"
    /\ UNCHANGED <<tool, command, dirs, config, inst_idx, loop_vars, count_vars, inject_vars, lyrics_vars, combine_vars,
                   render_vars, verify_vars, template_vars>>

\* build_song lines 116-118
BuildNoSongDir ==
    /\ pc = "build_song" /\ tool = BuildSong
    /\ command = "build"
    /\ SongDir \notin dirs
    /\ exit_code' = 1
    /\ uncaught' = "none"
    /\ pc' = "exited"
    /\ UNCHANGED <<tool, command, dirs, config, inst_idx, loop_vars, count_vars, inject_vars, lyrics_vars, combine_vars,
                   render_vars, verify_vars, template_vars>>

\* build_song lines 120-122
BuildNoStructureFile ==
    /\ pc = "build_song" /\ tool = BuildSong
    /\ command = "build"
    /\ SongDir \in dirs
    /\ ~fs[StructurePath].exists
    /\ exit_code' = 1
    /\ uncaught' = "none"
    /\ pc' = "exited"
    /\ UNCHANGED <<tool, command, dirs, config, inst_idx, loop_vars, count_vars, inject_vars, lyrics_vars, combine_vars,
                   render_vars, verify_vars, template_vars>>

\* build_song lines 124, 55-70
BuildLoad ==
    /\ pc = "build_song" /\ tool = BuildSong
    /\ command = "build"
    /\ SongDir \in dirs
    /\ fs[StructurePath].exists
    /\ config' = [config EXCEPT !.loaded = TRUE]
    /\ dirs' = dirs \cup {SectionsDir}
    /\ inst_idx' = 1
    /\ pc' = "build_instruments"
    /\ UNCHANGED <<tool, command, exit_code, uncaught, loop_vars, count_vars, inject_vars, lyrics_vars, combine_vars,
                   render_vars, verify_vars, template_vars>>

\* CollectSectionFiles taking each section of the arrangement once, at its
\* first place
CollectSectionFilesOnce(structure, ins) ==
    LET firsts == SelectSeq([i \in 1..Len(structure) |-> i],
                            LAMBDA j : \A h \in 1..(j - 1) : structure[h] # structure[j])
    IN SelectSeq([i \in 1..Len(firsts) |-> SectionFileOf(structure[firsts[i]], ins)],
                 LAMBDA path : fs[path].exists)

\* build_song lines 77-83: the section files of an instrument that exist, in
\* arrangement order
CollectSectionFiles(structure, ins) ==
    SelectSeq([i \in 1..Len(structure) |-> SectionFileOf(structure[i], ins)],
              LAMBDA path : fs[path].exists)

\* build_song lines 72-100, one instrument
BuildInstrument ==
    /\ pc = "build_instruments"
    /\ inst_idx <= Len(config.instruments)
    /\ LET instrument_name == config.instruments[inst_idx]
           section_files == CollectSectionFiles(config.structure, instrument_name)
       IN fs' = [fs EXCEPT ![OutputFileOf(instrument_name)] =
                    File(combine_sections([i \in 1..Len(section_files) |-> fs[section_files[i]]],
                                          is_percussion_instrument(instrument_name),
                                          SongKey, ProgramOf(instrument_name)))]
    /\ inst_idx' = inst_idx + 1
    /\ UNCHANGED <<pc, dirs, config, loop_vars, count_vars, inject_vars, lyrics_vars, sections, is_percussion, midi_program,
                   key, sec_idx, header, voice1_parts, voice2_parts, warnings,
                   full_content, render_vars, verify_vars, template_vars, cli_vars>>

\* build_song lines 102-104
BuildVerify ==
    /\ pc = "build_instruments"
    /\ inst_idx > Len(config.instruments)
    /\ pc' = "verify_song_consistency"
    /\ UNCHANGED <<count_vars, inject_vars, lyrics_vars, combine_vars, render_vars, verify_vars, template_vars,
                   cli_vars, song_vars>>

\* build_song line 105 and print_validation_report (abc_tools lines 288-310),
\* then the end of the script
BuildReport ==
    /\ pc = "done" /\ tool = BuildSong
    /\ exit_code' = IF "song_dir" \in DOMAIN results THEN 0 ELSE 1
    /\ uncaught' = IF "song_dir" \in DOMAIN results THEN "none" ELSE "KeyError"
    /\ pc' = "exited"
    /\ UNCHANGED <<tool, command, count_vars, inject_vars, lyrics_vars, combine_vars, render_vars,
                   verify_vars, template_vars, song_vars>>

\* generate_song lines 434 and 510: the complete track of an instrument, the
\* MIDI file rendered next to it, and line 530: its copy in midi/
MidiDir == "song/midi"
TrackFileOf(ins) == IF ins = Bass THEN "song/.generated/bass.abc" ELSE "song/.generated/drums.abc"
MidFileOf(abc_file) ==
    IF abc_file = "song/.generated/bass.abc" THEN "song/.generated/bass.mid"
    ELSE "song/.generated/drums.mid"
MidiCopyOf(abc_file) ==
    IF abc_file = "song/.generated/bass.abc" THEN "song/midi/bass.mid" ELSE "song/midi/drums.mid"
TrackFiles == { TrackFileOf(ins) : ins \in {Bass, Drums} }
GeneratedTracks(instruments) == { TrackFileOf(instruments[i]) : i \in 1..Len(instruments) }
MidiPaths ==
    TrackFiles \cup { MidFileOf(f) : f \in TrackFiles } \cup { MidiCopyOf(f) : f \in TrackFiles }

\* how subprocess.run can end in generate_midi_files (lines 513-541)
MidiOutcomes ==
    { [kind |-> "completed", text |-> <<>>, returncode |-> 0],
      [kind |-> "completed", text |-> ErrorWord, returncode |-> 1],
      TimeoutExpired, RendererNotFound, Raised(<<"b", "o", "o", "m">>) }

GenerateInit ==
    /\ pc = "generate_song"
    /\ tool = GenerateSong
    /\ command = "none"
    /\ dirs \in { {}, {SongDir}, {SongDir, GeneratedDir, GeneratedSectionsDir} }
    /\ \E written \in [GeneratedFiles \cup {SongYaml} ->
                           {File(<<>>), File(<<"o", "l", "d">>), NoFile}] :
          /\ written[SongYaml] # File(<<"o", "l", "d">>)
          /\ SongDir \notin dirs => \A path \in DOMAIN written : written[path] = NoFile
          /\ GeneratedDir \notin dirs => \A path \in GeneratedFiles : written[path] = NoFile
          /\ fs = [path \in DOMAIN written \cup MidiPaths |->
                      IF path \in DOMAIN written THEN written[path] ELSE NoFile]
    /\ config \in { [loaded |-> FALSE, fields |-> f, instruments |-> l] :
                       f \in SUBSET RequiredFields, l \in InstrumentLists }
    /\ "instruments" \in config.fields \/ config.instruments = <<>>
    /\ fs[SongYaml].exists \/ config.fields = {}
    /\ SongLocalsIdle

\* generate_song lines 563-566: return 1, then sys.exit(main() or 0), line 610
GenerateNoSongYaml ==
    /\ pc = "generate_song"
    /\ ~fs[SongYaml].exists
    /\ exit_code' = 1
    /\ uncaught' = "none"
    /\ pc' = "exited"
    /\ UNCHANGED <<tool, command, dirs, config, inst_idx, loop_vars, count_vars, inject_vars, lyrics_vars, combine_vars,
                   render_vars, verify_vars, template_vars>>

\* GenerateMissingField with the output directories made before the
\* configuration is looked at
GenerateMissingFieldLate ==
    /\ pc = "generate_song"
    /\ fs[SongYaml].exists
    /\ config.fields # RequiredFields
    /\ dirs' = dirs \cup {GeneratedDir, GeneratedSectionsDir}
    /\ exit_code' = 1
    /\ uncaught' = "ValueError"
    /\ pc' = "exited"
    /\ UNCHANGED <<tool, command, config, inst_idx, loop_vars, count_vars, inject_vars, lyrics_vars, combine_vars,
                   render_vars, verify_vars, template_vars>>

\* generate_song lines 570, 175-184: load_song_config raises ValueError,
\* uncaught
GenerateMissingField ==
    /\ pc = "generate_song"
    /\ fs[SongYaml].exists
    /\ config.fields # RequiredFields
    /\ exit_code' = 1
    /\ uncaught' = "ValueError"
    /\ pc' = "exited"
    /\ UNCHANGED <<tool, command, dirs, config, inst_idx, loop_vars, count_vars, inject_vars, lyrics_vars, combine_vars,
                   render_vars, verify_vars, template_vars>>

\* generate_song lines 570-582
GenerateMakeDirs ==
    /\ pc = "generate_song"
    /\ fs[SongYaml].exists
    /\ config.fields = RequiredFields
    /\ config' = [config EXCEPT !.loaded = TRUE]
    /\ dirs' = dirs \cup {GeneratedDir, GeneratedSectionsDir}
    /\ pc' = "generate_files"
    /\ UNCHANGED <<tool, command, exit_code, uncaught, inst_idx, loop_vars, count_vars, inject_vars, lyrics_vars, combine_vars,
                   render_vars, verify_vars, template_vars>>

\* generate_song lines 589-610: the generated files are written
GenerateFiles ==
    /\ pc = "generate_files"
    /\ fs' = [path \in DOMAIN fs |->
                 IF path \in GeneratedFiles \cup GeneratedTracks(config.instruments)
                 THEN File(<<"n", "e", "w">>) ELSE fs[path]]
    /\ \E skip_midi \in BOOLEAN :
          IF skip_midi
          THEN exit_code' = 0 /\ uncaught' = "none" /\ pc' = "exited"
          ELSE exit_code' = exit_code /\ uncaught' = uncaught /\ pc' = "generate_midi_files"
    /\ UNCHANGED <<tool, command, dirs, config, inst_idx, loop_vars, count_vars, inject_vars, lyrics_vars, sections,
                   is_percussion, midi_program, key, sec_idx, header, voice1_parts,
                   voice2_parts, warnings, full_content, render_vars, verify_vars,
                   template_vars>>

\* generate_midi_files lines 486-490 (lines 492-507 merge the section
\* automation into the instrument configuration, which only
\* inject_midi_controls reads)
MidiStart ==
    /\ pc = "generate_midi_files"
    /\ abc_files' \in Orders({ f \in TrackFiles : fs[f].exists })
    /\ dirs' = dirs \cup {MidiDir}
    /\ file_idx' = 1
    /\ pc' = "midi_files"
    /\ UNCHANGED <<tool, command, exit_code, uncaught, config, inst_idx, loop_vars, results, count_vars, inject_vars, lyrics_vars,
                   combine_vars, render_vars, template_vars>>

\* generate_midi_files lines 509-541, one file of the loop: inject_midi_controls
\* (line 525) rewrites the MIDI file or leaves it, by the plugin configuration
MidiFile ==
    /\ pc = "midi_files"
    /\ file_idx <= Len(abc_files)
    /\ \E r \in MidiOutcomes, injected \in BOOLEAN :
         LET abc_file == abc_files[file_idx]
             mid == IF injected THEN <<"m", "i", "d", "+", "c", "c">> ELSE <<"m", "i", "d">>
         IN /\ run' = r
            /\ invoked' = Append(invoked, abc_file)
            /\ IF r.kind = "completed" /\ r.returncode = 0
               THEN /\ fs' = [fs EXCEPT ![MidFileOf(abc_file)] = File(mid),
                                        ![MidiCopyOf(abc_file)] = File(mid)]
                    /\ warnings' = warnings
               ELSE /\ fs' = fs
                    /\ warnings' = Append(warnings, abc_file)
            /\ IF r.kind = "not_found"
               THEN /\ file_idx' = file_idx
                    /\ exit_code' = 0
                    /\ uncaught' = "none"
                    /\ pc' = "exited"
               ELSE /\ file_idx' = file_idx + 1
                    /\ exit_code' = exit_code
                    /\ uncaught' = uncaught
                    /\ pc' = pc
    /\ UNCHANGED <<tool, command, dirs, config, inst_idx, loop_vars, abc_files, results, valid,
                   message, count_vars, inject_vars, lyrics_vars, sections, is_percussion, midi_program, key,
                   sec_idx, header, voice1_parts, voice2_parts, full_content,
                   template_vars>>

\* generate_midi_files lines 543-546, then main lines 600-607 and line 610
MidiReturn ==
    /\ pc = "midi_files"
    /\ file_idx > Len(abc_files)
    /\ exit_code' = 0
    /\ uncaught' = "none"
    /\ pc' = "exited"
    /\ UNCHANGED <<tool, command, dirs, config, inst_idx, loop_vars, count_vars, inject_vars, lyrics_vars, combine_vars,
                   render_vars, verify_vars, template_vars>>

SongInit == BuildInit \/ GenerateInit

SongNext ==
    \/ BuildUsage
    \/ BuildNoSongDir
    \/ BuildNoStructureFile
    \/ BuildLoad
    \/ BuildInstrument
    \/ BuildVerify
    \/ VerifyNoFiles
    \/ VerifyStart
    \/ VerifyFile
    \/ VerifyReturn
    \/ BuildReport
    \/ GenerateNoSongYaml
    \/ GenerateMissingField
    \/ GenerateMakeDirs
    \/ GenerateFiles
    \/ MidiStart
    \/ MidiFile
    \/ MidiReturn

SpecSong == SongInit /\ [][SongNext]_vars

\* the top-level input of the command is missing
MissingTopLevelInput ==
    \/ /\ tool = GenerateSong
       /\ ~fs[SongYaml].exists \/ config.fields # RequiredFields
    \/ /\ tool = BuildSong /\ command = "build"
       /\ SongDir \notin dirs \/ ~fs[StructurePath].exists

\* C14: when generate_song finds no song.yaml or a song.yaml without one of
\* the required keys, or build_song finds no song directory or no structure
\* file, no step of the run creates or changes a file or a directory, and
\* the run ends with a nonzero exit code.
C14_AbortBeforeOutput ==
    /\ [][MissingTopLevelInput => (fs' = fs /\ dirs' = dirs /\ pc' = "exited")]_vars
    /\ []((pc = "exited" /\ MissingTopLevelInput) => exit_code > 0)

\* C14 witness: generate_song has ended on a song.yaml that has no
\* instruments key.
C14_Witness ==
    /\ pc = "exited"
    /\ tool = GenerateSong
    /\ fs[SongYaml].exists
    /\ config.fields = {"song", "sections"}
    /\ GeneratedDir \notin dirs
    /\ exit_code = 1

\* the music lines of the existing fragments at paths, in order
RECURSIVE FragmentMusic(_)
FragmentMusic(paths) ==
    IF paths = <<>> THEN <<>>
    ELSE (IF fs[Head(paths)].exists
          THEN [i \in 1..Len(MusicLinesOf(fs[Head(paths)].text)) |->
                   Strip(MusicLinesOf(fs[Head(paths)].text)[i])]
          ELSE <<>>)
         \o FragmentMusic(Tail(paths))

\* the fragment files of an instrument along the arrangement
ArrangedFiles(ins) ==
    [i \in 1..Len(config.structure) |-> SectionFileOf(config.structure[i], ins)]

StrippedMusic(text) ==
    [i \in 1..Len(MusicLinesOf(text)) |-> Strip(MusicLinesOf(text)[i])]

Configured == { config.instruments[i] : i \in 1..Len(config.instruments) }

C23_RepeatBarsPositive ==
    (pc = "done" /\ IsRepeatPassage(abc_content) /\ BarsWritten(abc_content) >= 1)
        => bar_count > 0

\* C27: whatever the text, markers next to or over each other included, the
\* value count_bars returns is a bar count: an integer that is not negative.
C27_NonNegative ==
    pc = "done" => (bar_count \in Int /\ bar_count >= 0)


(***************************************************************************)
(* Fragment stripping in combine_sections.                                 *)
(***************************************************************************)
\* the lines of the combined output below its header
BodyLines ==
    LET ls == SplitLines(full_content)
    IN SubSeq(ls, Len(SplitLines(header)), Len(ls))

\* the lines combine_sections writes itself between the two voices
SnareBlockLines == { SplitLines(SnareBlock)[i] : i \in 1..Len(SplitLines(SnareBlock)) }

\* the body lines that come from the fragments
CarriedLines ==
    SelectSeq(BodyLines, LAMBDA l : ~(is_percussion /\ l \in SnareBlockLines))

\* C21: in the combined output, melodic or percussion, no line taken from a
\* fragment is a header, voice, lyric, comment or directive line, and the
\* music lines taken are all the music lines of the fragments (per voice for
\* percussion), none left out.
C21_FragmentStripping ==
    pc = "done" =>
        /\ \A i \in 1..Len(CarriedLines) : LineKind(CarriedLines[i]) \in {"music", "blank"}
        /\ [i \in 1..Len(MusicOnly(CarriedLines)) |-> Strip(MusicOnly(CarriedLines)[i])]
              = (IF is_percussion
                 THEN FragmentVoiceLines(sections, <<"1">>) \o FragmentVoiceLines(sections, <<"2">>)
                 ELSE FragmentMusic(sections))


(***************************************************************************)
(* Renderer invocations in verify_song_consistency and generate_midi_files. *)
(***************************************************************************)
\* the file loop of the two operations
InFileLoop == pc \in {"verify_files", "midi_files"}

\* the step's renderer run did not end well
RunFailed(r) ==
    \/ r.kind \in {"timeout", "not_found", "exception"}
    \/ (pc = "midi_files" /\ r.returncode # 0)
    \/ (pc = "verify_files" /\ Occurs(r.text, ErrorWord))

\* the step reports the failure for the current file: a failed entry of the
\* verify report, a warning of generate_midi_files
FailureReported ==
    IF pc = "verify_files"
    THEN /\ abc_files[file_idx] \in DOMAIN results'.files
         /\ ~results'.files[abc_files[file_idx]].valid
    ELSE warnings' = Append(warnings, abc_files[file_idx])

\* C22: in a run of verify_song_consistency or generate_midi_files the
\* renderer is invoked at most once for a file; each invocation is for the
\* current file of the loop, and whether it succeeds, fails, errors or times
\* out the loop then moves on to the next file, a failure being reported.
C22_NoRetries ==
    /\ [](\A i, j \in 1..Len(invoked) : i # j => invoked[i] # invoked[j])
    /\ [][(InFileLoop /\ invoked' # invoked) =>
             /\ invoked' = Append(invoked, abc_files[file_idx])
             /\ abc_files' = abc_files
             /\ file_idx' = file_idx + 1
             /\ pc' = pc
             /\ RunFailed(run') => FailureReported]_vars


(***************************************************************************)
(* The song-level commands: section_tools validate-all and generate-all    *)
(* (section_tools.py), next to abc_tools verify.                           *)
(***************************************************************************)
\* the bar counts a structure file can give its sections (lines 74-81); the
\* last one leaves verse out
SpecChoices ==
    { (Intro :> 2) @@ (Verse :> 3), (Intro :> 2) @@ (Verse :> 1), (Intro :> 2) }

NoSectionsMessage ==
    <<"N", "o", " ", "s", "e", "c", "t", "i", "o", "n", "s", " ", "d", "i", "r", "e", "c",
      "t", "o", "r", "y", " ", "f", "o", "u", "n", "d">>

\* section_file.name
SectionNameText(sec, ins) == sec \o <<"-">> \o ins \o <<".", "a", "b", "c">>

\* the message of validate_section_file for a file that exists (lines 186-189)
SectionMessage(sec, ins, actual, expected) ==
    IF actual = expected
    THEN <<CheckMark, " ">> \o SectionNameText(sec, ins) \o <<":", " ">>
         \o IntToStr(actual) \o BarsCorrect
    ELSE <<CrossMark, " ">> \o SectionNameText(sec, ins) \o <<":", " ">>
         \o IntToStr(actual) \o BarsExpected \o IntToStr(expected) \o <<")">>

\* create_section_template (lines 114-154) as a function of its arguments
create_section_template(specs, sec, ins) ==
    LET n == specs[sec]
        perc == is_percussion_instrument(ins)
    IN TemplateHeader(sec, ins, perc)
       \o TemplateBody(perc, [i \in 1..n |-> KickPattern], [i \in 1..n |-> SnarePattern],
                       [i \in 1..n |-> RestPattern])
       \o ExpectedComment(n)

\* the sections of the arrangement, each once: set(structure_order)
DistinctSections(structure) == { structure[i] : i \in 1..Len(structure) }

\* the pairs of the two nested loops (lines 212-213, 347-348), the sections
\* taken in the order given
RECURSIVE PairsOf(_, _)
PairsOf(order, instruments) ==
    IF order = <<>> THEN <<>>
    ELSE [i \in 1..Len(instruments) |-> <<Head(order), instruments[i]>>]
         \o PairsOf(Tail(order), instruments)

\* a set is iterated in any order
PairOrders(cfg) ==
    { PairsOf(o, cfg.instruments) : o \in Orders(DistinctSections(cfg.structure)) }

SectionToolsSongInit ==
    /\ pc = "section_tools"
    /\ tool = SectionTools
    /\ command \in {"validate-all", "generate-all"}
    /\ dirs \in { {}, {SongDir}, {SongDir, SectionsDir} }
    /\ \E present \in SUBSET SectionFilePaths, structure_file \in {File(<<>>), NoFile} :
          /\ SectionsDir \notin dirs => present = {}
          /\ SongDir \notin dirs => structure_file = NoFile
          /\ fs = [path \in SectionFilePaths \cup {StructurePath} |->
                      IF path \in present THEN File(AuthoredText(path))
                      ELSE IF path = StructurePath THEN structure_file
                      ELSE NoFile]
    /\ config \in { [loaded |-> FALSE, structure |-> a, instruments |-> l] :
                       a \in Arrangements, l \in InstrumentLists }
    /\ section_specs \in SpecChoices
    /\ fs[StructurePath].exists
          \/ (config.structure = <<>> /\ config.instruments = <<>>
              /\ section_specs = (Intro :> 2))
    /\ section_name = <<>> /\ instrument = <<>>
    /\ exit_code = -1
    /\ uncaught = "none"
    /\ inst_idx = 0
    /\ pairs = <<>>
    /\ pair_idx = 0
    /\ count = 0
    /\ run_no = 1
    /\ InjectIdle
    /\ LyricsIdle
    /\ CountIdle
    /\ CombineLocalsIdle
    /\ RenderIdle
    /\ VerifyIdle
    /\ TemplateLocalsIdle

\* section_tools lines 335-336 and 341-342 (SongStructure.__init__, lines
\* 40-42): open raises on a missing structure file
SectionToolsNoStructure ==
    /\ pc = "section_tools"
    /\ ~fs[StructurePath].exists
    /\ exit_code' = 1
    /\ uncaught' = "FileNotFoundError"
    /\ pc' = "exited"
    /\ UNCHANGED <<tool, command, count_vars, inject_vars, lyrics_vars, combine_vars, render_vars, verify_vars,
                   template_vars, song_vars>>

\* validate_all_sections lines 198-202
ValidateAllNoSections ==
    /\ pc = "section_tools" /\ command = "validate-all"
    /\ fs[StructurePath].exists
    /\ SectionsDir \notin dirs
    /\ config' = [config EXCEPT !.loaded = TRUE]
    /\ results' = [error |-> NoSectionsMessage]
    /\ pc' = "print_validation_results"
    /\ UNCHANGED <<tool, command, exit_code, uncaught, dirs, inst_idx, loop_vars,
                   abc_files, file_idx, count_vars, inject_vars, lyrics_vars, combine_vars, render_vars,
                   template_vars>>

\* validate_all_sections lines 198-209; a section's key and file name are
\* both modelled by the path of its file
ValidateAllStart ==
    /\ pc = "section_tools" /\ command = "validate-all"
    /\ fs[StructurePath].exists
    /\ SectionsDir \in dirs
    /\ config' = [config EXCEPT !.loaded = TRUE]
    /\ results' = [song |-> SongTitle, sections |-> <<>>, all_valid |-> TRUE,
                   missing |-> <<>>, invalid |-> <<>>]
    /\ pairs' \in PairOrders(config)
    /\ pair_idx' = 1
    /\ pc' = "validate_all"
    /\ UNCHANGED <<tool, command, exit_code, uncaught, dirs, inst_idx, count, run_no,
                   abc_files, file_idx, count_vars, inject_vars, lyrics_vars, combine_vars, render_vars,
                   template_vars>>

\* ValidateAllPair with a missing file left out of the verdict
ValidateAllPairLenient ==
    /\ pc = "validate_all"
    /\ pair_idx <= Len(pairs)
    /\ LET sec == pairs[pair_idx][1]
           ins == pairs[pair_idx][2]
           section_file == SectionFileOf(sec, ins)
       IN IF ~fs[section_file].exists
          THEN /\ results' = [results EXCEPT !.missing = Append(@, section_file)]
               /\ pair_idx' = pair_idx + 1
               /\ UNCHANGED <<pc, exit_code, uncaught>>
          ELSE IF sec \notin DOMAIN section_specs
          THEN /\ exit_code' = 1
               /\ uncaught' = "ValueError"
               /\ pc' = "exited"
               /\ UNCHANGED <<results, pair_idx>>
          ELSE LET actual_bars == count_bars(fs[section_file].text)
                   is_valid == actual_bars = section_specs[sec]
                   entry == [valid |-> is_valid,
                             message |-> SectionMessage(sec, ins, actual_bars,
                                                        section_specs[sec])]
               IN /\ results' =
                       [results EXCEPT
                          !.sections = (section_file :> entry) @@ @,
                          !.invalid = IF is_valid THEN @ ELSE Append(@, section_file),
                          !.all_valid = IF is_valid THEN @ ELSE FALSE]
                  /\ pair_idx' = pair_idx + 1
                  /\ UNCHANGED <<pc, exit_code, uncaught>>
    /\ UNCHANGED <<tool, command, dirs, config, inst_idx, pairs, count, run_no,
                   abc_files, file_idx, count_vars, inject_vars, lyrics_vars, combine_vars, render_vars,
                   template_vars>>

\* validate_all_sections lines 212-237, one pair; get_section_bars raises
\* ValueError for a section the structure file does not define (lines 88-92)
ValidateAllPair ==
    /\ pc = "validate_all"
    /\ pair_idx <= Len(pairs)
    /\ LET sec == pairs[pair_idx][1]
           ins == pairs[pair_idx][2]
           section_file == SectionFileOf(sec, ins)
       IN IF ~fs[section_file].exists
          THEN /\ results' = [results EXCEPT !.missing = Append(@, section_file),
                                             !.all_valid = FALSE]
               /\ pair_idx' = pair_idx + 1
               /\ UNCHANGED <<pc, exit_code, uncaught>>
          ELSE IF sec \notin DOMAIN section_specs
          THEN /\ exit_code' = 1
               /\ uncaught' = "ValueError"
               /\ pc' = "exited"
               /\ UNCHANGED <<results, pair_idx>>
          ELSE LET actual_bars == count_bars(fs[section_file].text)
                   is_valid == actual_bars = section_specs[sec]
                   entry == [valid |-> is_valid,
                             message |-> SectionMessage(sec, ins, actual_bars,
                                                        section_specs[sec])]
               IN /\ results' =
                       [results EXCEPT
                          !.sections = (section_file :> entry) @@ @,
                          !.invalid = IF is_valid THEN @ ELSE Append(@, section_file),
                          !.all_valid = IF is_valid THEN @ ELSE FALSE]
                  /\ pair_idx' = pair_idx + 1
                  /\ UNCHANGED <<pc, exit_code, uncaught>>
    /\ UNCHANGED <<tool, command, dirs, config, inst_idx, pairs, count, run_no,
                   abc_files, file_idx, count_vars, inject_vars, lyrics_vars, combine_vars, render_vars,
                   template_vars>>

\* validate_all_sections line 239
ValidateAllReturn ==
    /\ pc = "validate_all"
    /\ pair_idx > Len(pairs)
    /\ pc' = "print_validation_results"
    /\ UNCHANGED <<count_vars, inject_vars, lyrics_vars, combine_vars, render_vars, verify_vars, template_vars,
                   cli_vars, song_vars>>

\* section_tools lines 337-338 with print_validation_results (lines 242-272):
\* the printer reads results['song'] (line 245) before it looks for 'error',
\* and line 338 reads results['all_valid']
ValidateAllPrint ==
    /\ pc = "print_validation_results"
    /\ IF "song" \in DOMAIN results
       THEN /\ exit_code' = (IF results.all_valid THEN 0 ELSE 1)
            /\ uncaught' = "none"
       ELSE /\ exit_code' = 1
            /\ uncaught' = "KeyError"
    /\ pc' = "exited"
    /\ UNCHANGED <<tool, command, count_vars, inject_vars, lyrics_vars, combine_vars, render_vars, verify_vars,
                   template_vars, song_vars>>

\* section_tools lines 341-346; mkdir needs the song directory, which holds
\* the structure file just read
GenerateAllStart ==
    /\ pc = "section_tools" /\ command = "generate-all"
    /\ fs[StructurePath].exists
    /\ config' = [config EXCEPT !.loaded = TRUE]
    /\ dirs' = dirs \cup {SectionsDir}
    /\ count' = 0
    /\ pairs' \in PairOrders(config)
    /\ pair_idx' = 1
    /\ pc' = "generate_all"
    /\ UNCHANGED <<tool, command, exit_code, uncaught, inst_idx, run_no, count_vars, inject_vars, lyrics_vars,
                   combine_vars, render_vars, verify_vars, template_vars>>

\* GenerateAllPair writing the template whether the file exists or not
GenerateAllPairOverwrite ==
    /\ pc = "generate_all"
    /\ pair_idx <= Len(pairs)
    /\ LET sec == pairs[pair_idx][1]
           ins == pairs[pair_idx][2]
           generated_file == SectionFileOf(sec, ins)
       IN IF sec \notin DOMAIN section_specs
          THEN /\ exit_code' = 1
               /\ uncaught' = "ValueError"
               /\ pc' = "exited"
               /\ UNCHANGED <<fs, count, pair_idx>>
          ELSE /\ fs' = [fs EXCEPT ![generated_file] =
                            File(create_section_template(section_specs, sec, ins))]
               /\ count' = count + 1
               /\ pair_idx' = pair_idx + 1
               /\ UNCHANGED <<pc, exit_code, uncaught>>
    /\ UNCHANGED <<tool, command, dirs, config, inst_idx, pairs, run_no, count_vars, inject_vars, lyrics_vars,
                   sections, is_percussion, midi_program, key, sec_idx, header,
                   voice1_parts, voice2_parts, warnings, full_content, render_vars,
                   verify_vars, template_vars>>

\* section_tools lines 347-357, one pair, with create_section_template
\* (lines 114-165)
GenerateAllPair ==
    /\ pc = "generate_all"
    /\ pair_idx <= Len(pairs)
    /\ LET sec == pairs[pair_idx][1]
           ins == pairs[pair_idx][2]
           generated_file == SectionFileOf(sec, ins)
       IN IF fs[generated_file].exists
          THEN /\ pair_idx' = pair_idx + 1
               /\ UNCHANGED <<pc, fs, count, exit_code, uncaught>>
          ELSE IF sec \notin DOMAIN section_specs
          THEN /\ exit_code' = 1
               /\ uncaught' = "ValueError"
               /\ pc' = "exited"
               /\ UNCHANGED <<fs, count, pair_idx>>
          ELSE /\ fs' = [fs EXCEPT ![generated_file] =
                            File(create_section_template(section_specs, sec, ins))]
               /\ count' = count + 1
               /\ pair_idx' = pair_idx + 1
               /\ UNCHANGED <<pc, exit_code, uncaught>>
    /\ UNCHANGED <<tool, command, dirs, config, inst_idx, pairs, run_no, count_vars, inject_vars, lyrics_vars,
                   sections, is_percussion, midi_program, key, sec_idx, header,
                   voice1_parts, voice2_parts, warnings, full_content, render_vars,
                   verify_vars, template_vars>>

\* section_tools line 359, then the end of main
GenerateAllReturn ==
    /\ pc = "generate_all"
    /\ pair_idx > Len(pairs)
    /\ exit_code' = 0
    /\ uncaught' = "none"
    /\ pc' = "exited"
    /\ UNCHANGED <<tool, command, count_vars, inject_vars, lyrics_vars, combine_vars, render_vars, verify_vars,
                   template_vars, song_vars>>

\* the command given a second time, on the files the first run left
GenerateAllAgain ==
    /\ pc = "exited" /\ command = "generate-all"
    /\ run_no = 1
    /\ exit_code = 0
    /\ run_no' = 2
    /\ exit_code' = -1
    /\ uncaught' = "none"
    /\ config' = [config EXCEPT !.loaded = FALSE]
    /\ pairs' = <<>>
    /\ pair_idx' = 0
    /\ count' = 0
    /\ pc' = "section_tools"
    /\ UNCHANGED <<tool, command, dirs, inst_idx, count_vars, inject_vars, lyrics_vars, combine_vars, render_vars,
                   verify_vars, template_vars>>

\* abc_tools verify on a song directory of at most three tracks
VerifyCommandInit ==
    /\ CliStart
    /\ tool = AbcTools
    /\ command = "verify"
    /\ fs \in [AbcNames -> {File(FragIntro), NoFile}]
    /\ section_specs = <<>> /\ section_name = <<>> /\ instrument = <<>>

SongToolsInit == SectionToolsSongInit \/ VerifyCommandInit

SongToolsNext ==
    \/ SectionToolsNoStructure
    \/ ValidateAllNoSections
    \/ ValidateAllStart
    \/ ValidateAllPair
    \/ ValidateAllReturn
    \/ ValidateAllPrint
    \/ GenerateAllStart
    \/ GenerateAllPair
    \/ GenerateAllReturn
    \/ GenerateAllAgain
    \/ AbcToolsVerify
    \/ VerifyNoFiles
    \/ VerifyStart
    \/ VerifyFile
    \/ VerifyReturn
    \/ AbcToolsVerifyReport

SpecSongTools == SongToolsInit /\ [][SongToolsNext]_vars


(***************************************************************************)
(* Properties of the song-level commands.                                  *)
(***************************************************************************)
\* how often x occurs in the list s
TimesIn(s, x) == Cardinality({ i \in 1..Len(s) : s[i] = x })

\* the files of {distinct arrangement sections} x {configured instruments}
PairFiles ==
    { SectionFileOf(sec, config.instruments[i]) :
         sec \in DistinctSections(config.structure), i \in 1..Len(config.instruments) }

\* validate_all_sections has returned its result for a sections directory
ValidateAllReturned ==
    pc = "print_validation_results" /\ "song" \in DOMAIN results

\* C25: in the result validate_all_sections returns for an existing sections
\* directory, all_valid is true exactly when missing and invalid are both
\* empty, and each (section, instrument) pair is recorded once: its file is
\* in missing once and has no entry, or it has an entry and is not in
\* missing, and then it is in invalid (once) exactly when the entry says
\* valid = false; nothing else is recorded.
C25_ValidateAllResult ==
    ValidateAllReturned =>
        /\ results.all_valid <=> (results.missing = <<>> /\ results.invalid = <<>>)
        /\ \A f \in PairFiles :
              \/ /\ TimesIn(results.missing, f) = 1
                 /\ f \notin DOMAIN results.sections
                 /\ TimesIn(results.invalid, f) = 0
              \/ /\ TimesIn(results.missing, f) = 0
                 /\ f \in DOMAIN results.sections
                 /\ TimesIn(results.invalid, f) = (IF results.sections[f].valid THEN 0 ELSE 1)
        /\ DOMAIN results.sections \subseteq PairFiles
        /\ \A i \in 1..Len(results.missing) : results.missing[i] \in PairFiles
        /\ \A i \in 1..Len(results.invalid) : results.invalid[i] \in PairFiles

\* C25 witness: a result with a missing file, an invalid one and a valid one.
C25_Witness ==
    /\ ValidateAllReturned
    /\ ~results.all_valid
    /\ Len(results.missing) = 1
    /\ Len(results.invalid) = 1
    /\ \E f \in DOMAIN results.sections : results.sections[f].valid

\* the fragment files a step creates
CreatedBy == { path \in DOMAIN fs : ~fs[path].exists /\ fs'[path].exists }

\* C26: generate-all leaves every file that exists as it is, creates files
\* only for the pair at hand, counts one for each file it creates and for
\* nothing else, and run again after it completed creates no file and
\* reports 0.
C26_GenerateAllKeepsFragments ==
    /\ [][command = "generate-all" =>
             /\ \A path \in DOMAIN fs : fs[path].exists => fs'[path] = fs[path]
             /\ pc = "generate_all" =>
                   /\ count' = count + Cardinality(CreatedBy)
                   /\ \/ CreatedBy = {}
                      \/ /\ pair_idx <= Len(pairs)
                         /\ CreatedBy = {SectionFileOf(pairs[pair_idx][1], pairs[pair_idx][2])}
             /\ pc # "generate_all" => (CreatedBy = {} /\ count' = 0)
             /\ run_no = 2 => fs' = fs]_vars
    /\ []((command = "generate-all" /\ run_no = 2 /\ pc = "exited") => count = 0)

\* C26 witness: the second run has ended; the first created the drums
\* template of the intro next to the authored bass fragment.
C26_Witness ==
    /\ command = "generate-all" /\ run_no = 2 /\ pc = "exited"
    /\ count = 0
    /\ fs[SectionFileOf(Intro, Bass)] = File(AuthoredText(SectionFileOf(Intro, Bass)))
    /\ fs[SectionFileOf(Intro, Drums)] =
          File(create_section_template(section_specs, Intro, Drums))

\* C28: a command that got an {'error': ...} result from
\* verify_song_consistency or validate_all_sections ends without an uncaught
\* exception: the printer and the command line accept the result.
C28_ErrorResultsReported ==
    (pc = "exited" /\ "error" \in DOMAIN results) => uncaught = "none"


(***************************************************************************)
(* Bar alignment from the fragments to the built tracks.                   *)
(***************************************************************************)
\* the fragment files of the arranged sections for the configured instruments
ArrangedPairFiles ==
    { SectionFileOf(sec, config.instruments[i]) :
         sec \in DistinctSections(config.structure), i \in 1..Len(config.instruments) }

\* the bars validate_section_file finds in the fragment of a section
FragmentBars(sec, ins) == count_bars(fs[SectionFileOf(sec, ins)].text)

\* validate_all_sections reports all_valid = true under some table of
\* expected bars: every fragment exists, and the fragments of a section have
\* the section's expected bars, the same for every instrument
AllValid ==
    /\ \A f \in ArrangedPairFiles : fs[f].exists
    /\ \A sec \in DistinctSections(config.structure) :
          \A i, j \in 1..Len(config.instruments) :
              FragmentBars(sec, config.instruments[i]) = FragmentBars(sec, config.instruments[j])

\* the expected bars of the arrangement places from k on, under that table
RECURSIVE ExpectedTotal(_)
ExpectedTotal(k) ==
    IF k > Len(config.structure) THEN 0
    ELSE FragmentBars(config.structure[k], config.instruments[1]) + ExpectedTotal(k + 1)

\* C24: when all fragments of a song are valid, the tracks build_song makes
\* of them all count the sum of the expected bars over the arrangement, and
\* verify_song_consistency reports all_match = true.
C24_EndToEndAlignment ==
    (pc = "done" /\ tool = BuildSong /\ config.instruments # <<>> /\ AllValid) =>
        /\ \A i \in 1..Len(config.instruments) :
              count_bars(fs[OutputFileOf(config.instruments[i])].text) = ExpectedTotal(1)
        /\ results.all_match


(***************************************************************************)
(* inject_midi_controls (generate_song.py).  A track is a list of messages *)
(* [type, data, time], time being the delta to the message before.         *)
(***************************************************************************)
MaxTrack == 2
KeyswitchVelocity == 100
KeyswitchOffTick == 10

Msg(type, data, time) == [type |-> type, data |-> data, time |-> time]

\* what a rendered track is made of
TrackMessages ==
    { Msg(t.type, t.data, d) :
         t \in { [type |-> "program_change", data |-> <<33>>],
                 [type |-> "note_on", data |-> <<60, 64>>],
                 [type |-> "note_off", data |-> <<60, 0>>] },
         d \in {0, 1} }

Tracks == UNION { [1..n -> TrackMessages] : n \in 0..MaxTrack }

\* plugins/controls.yaml: none, a keyswitch on note 24, a keyswitch on note 0
PluginControlSets ==
    { <<>>,
      ("sax" :> [keyswitches |-> ("legato" :> [note |-> 24])]),
      ("sax" :> [keyswitches |-> ("legato" :> [note |-> 0])]) }

\* the automation lists of an instrument: [cc, values], values a list of
\* <<beat, value>>
AutomationLists ==
    { <<>>,
      << [cc |-> 1, values |-> <<>>] >>,
      << [cc |-> 1, values |-> << <<1, 10>>, <<0, 20>> >>] >> }

\* get_keyswitch_note (lines 58-68); -1 stands for None
get_keyswitch_note(plugin_controls, plugin_name, articulation) ==
    IF plugin_name \notin DOMAIN plugin_controls THEN -1
    ELSE IF "keyswitches" \notin DOMAIN plugin_controls[plugin_name] THEN -1
    ELSE IF articulation \in DOMAIN plugin_controls[plugin_name].keyswitches
         THEN plugin_controls[plugin_name].keyswitches[articulation].note
    ELSE -1

\* lines 121-125: the messages with their absolute times
RECURSIVE AbsFrom(_, _)
AbsFrom(track, abs_time) ==
    IF track = <<>> THEN <<>>
    ELSE <<[abs |-> abs_time + Head(track).time, msg |-> Head(track)]>>
         \o AbsFrom(Tail(track), abs_time + Head(track).time)

\* line 159: the sort key, note messages first at a tick
IsNoteType(type) == type \in {"note_on", "note_off"}
KeyLess(a, b) ==
    \/ a.abs < b.abs
    \/ /\ a.abs = b.abs
       /\ (IF IsNoteType(a.msg.type) THEN 0 ELSE 1) < (IF IsNoteType(b.msg.type) THEN 0 ELSE 1)

\* list.sort is stable: an element goes after every element that is not
\* greater than it
RECURSIVE InsertStable(_, _)
InsertStable(sorted, x) ==
    IF sorted = <<>> THEN <<x>>
    ELSE IF KeyLess(x, Head(sorted)) THEN <<x>> \o sorted
    ELSE <<Head(sorted)>> \o InsertStable(Tail(sorted), x)

RECURSIVE SortStable(_, _)
SortStable(sorted, rest) ==
    IF rest = <<>> THEN sorted
    ELSE SortStable(InsertStable(sorted, Head(rest)), Tail(rest))

\* lines 162-167: back to delta times
RECURSIVE DeltaFrom(_, _)
DeltaFrom(all_messages, prev_time) ==
    IF all_messages = <<>> THEN <<>>
    ELSE <<[Head(all_messages).msg EXCEPT !.time = Head(all_messages).abs - prev_time]>>
         \o DeltaFrom(Tail(all_messages), Head(all_messages).abs)

\* lines 147-149: the control changes of one automation entry
ControlPoints(auto, ticks_per_beat) ==
    [i \in 1..Len(auto.values) |->
        [abs |-> auto.values[i][1] * ticks_per_beat,
         msg |-> Msg("control_change", <<auto.cc, auto.values[i][2]>>, 0)]]

RECURSIVE AllControlPoints(_, _)
AllControlPoints(automation, ticks_per_beat) ==
    IF automation = <<>> THEN <<>>
    ELSE ControlPoints(Head(automation), ticks_per_beat)
         \o AllControlPoints(Tail(automation), ticks_per_beat)

NotInject ==
    <<count_vars, combine_vars, render_vars, verify_vars, template_vars, cli_vars,
      song_vars, lyrics_vars>>

InjectInit ==
    /\ pc = "inject_midi_controls"
    /\ midi_track \in Tracks
    /\ inject_args \in
         [given : {TRUE}, mido_available : BOOLEAN, readable : BOOLEAN,
          plugin_controls : PluginControlSets, plugin : {"", "sax"},
          articulation : {"", "legato"}, automation : AutomationLists,
          ticks_per_beat : {2}]
    /\ abs_messages = <<>>
    /\ new_messages = <<>>
    /\ modified = FALSE
    /\ saved_track = <<>>
    /\ midi_saved = FALSE
    /\ inject_result = "none"
    /\ LyricsIdle
    /\ CountIdle
    /\ CombineIdle
    /\ RenderIdle
    /\ VerifyIdle
    /\ TemplateIdle
    /\ CliIdle
    /\ dirs = {}
    /\ config = NoConfig
    /\ inst_idx = 0
    /\ LoopIdle

\* lines 84-111: nothing to do, or the file cannot be read
InjectNothing ==
    /\ pc = "inject_midi_controls"
    /\ \/ ~inject_args.mido_available
       \/ inject_args.plugin = ""
       \/ (inject_args.articulation = "" /\ inject_args.automation = <<>>)
       \/ ~inject_args.readable
    /\ inject_result' = "False"
    /\ pc' = "done"
    /\ UNCHANGED <<midi_track, inject_args, abs_messages, new_messages, modified,
                   saved_track, midi_saved, NotInject>>

\* lines 107-127
InjectCollect ==
    /\ pc = "inject_midi_controls"
    /\ inject_args.mido_available
    /\ inject_args.plugin # ""
    /\ inject_args.articulation # "" \/ inject_args.automation # <<>>
    /\ inject_args.readable
    /\ abs_messages' = AbsFrom(midi_track, 0)
    /\ new_messages' = <<>>
    /\ modified' = FALSE
    /\ pc' = "keyswitch"
    /\ UNCHANGED <<midi_track, inject_args, saved_track, midi_saved, inject_result,
                   NotInject>>

\* lines 130-137: `if keyswitch_note:` is false for None and for note 0
InjectKeyswitch ==
    /\ pc = "keyswitch"
    /\ LET keyswitch_note ==
               get_keyswitch_note(inject_args.plugin_controls, inject_args.plugin,
                                  inject_args.articulation)
       IN IF inject_args.articulation # "" /\ keyswitch_note > 0
          THEN /\ new_messages' =
                     new_messages
                     \o << [abs |-> 0,
                            msg |-> Msg("note_on", <<keyswitch_note, KeyswitchVelocity>>, 0)],
                           [abs |-> KeyswitchOffTick,
                            msg |-> Msg("note_off", <<keyswitch_note, 0>>, 0)] >>
               /\ modified' = TRUE
          ELSE UNCHANGED <<new_messages, modified>>
    /\ pc' = "automation"
    /\ UNCHANGED <<midi_track, inject_args, abs_messages, saved_track, midi_saved,
                   inject_result, NotInject>>

\* lines 140-152, the whole loop
InjectAutomation ==
    /\ pc = "automation"
    /\ LET points == AllControlPoints(inject_args.automation, inject_args.ticks_per_beat)
       IN /\ new_messages' = new_messages \o points
          /\ modified' = (modified \/ points # <<>>)
    /\ pc' = "merge"
    /\ UNCHANGED <<midi_track, inject_args, abs_messages, saved_track, midi_saved,
                   inject_result, NotInject>>

\* lines 154-155
InjectUnmodified ==
    /\ pc = "merge"
    /\ ~modified
    /\ inject_result' = "False"
    /\ pc' = "done"
    /\ UNCHANGED <<midi_track, inject_args, abs_messages, new_messages, modified,
                   saved_track, midi_saved, NotInject>>

\* lines 158-172
InjectMerge ==
    /\ pc = "merge"
    /\ modified
    /\ saved_track' = DeltaFrom(SortStable(<<>>, abs_messages \o new_messages), 0)
    /\ midi_saved' = TRUE
    /\ inject_result' = "True"
    /\ pc' = "done"
    /\ UNCHANGED <<midi_track, inject_args, abs_messages, new_messages, modified,
                   NotInject>>

InjectNext ==
    \/ InjectNothing
    \/ InjectCollect
    \/ InjectKeyswitch
    \/ InjectAutomation
    \/ InjectUnmodified
    \/ InjectMerge

SpecInject == InjectInit /\ [][InjectNext]_vars


(***************************************************************************)
(* Properties of inject_midi_controls.                                     *)
(***************************************************************************)
\* a track as timed events: what each message is and its absolute tick
RECURSIVE EventsFrom(_, _)
EventsFrom(track, tick) ==
    IF track = <<>> THEN <<>>
    ELSE <<[tick |-> tick + Head(track).time, type |-> Head(track).type,
            data |-> Head(track).data]>>
         \o EventsFrom(Tail(track), tick + Head(track).time)

EventsOf(track) == EventsFrom(track, 0)

\* old is a subsequence of new
RECURSIVE Embeds(_, _)
Embeds(old, new) ==
    IF old = <<>> THEN TRUE
    ELSE IF new = <<>> THEN FALSE
    ELSE IF Head(old) = Head(new) THEN Embeds(Tail(old), Tail(new))
    ELSE Embeds(old, Tail(new))

\* the events the configuration asks for: the keyswitch pair of the
\* articulation and the control changes of the automation
ConfiguredEvents ==
    LET ks == IF inject_args.articulation # ""
                 /\ inject_args.plugin \in DOMAIN inject_args.plugin_controls
                 /\ inject_args.articulation
                       \in DOMAIN inject_args.plugin_controls[inject_args.plugin].keyswitches
              THEN { inject_args.plugin_controls[inject_args.plugin]
                        .keyswitches[inject_args.articulation].note }
              ELSE {}
    IN { [tick |-> 0, type |-> "note_on", data |-> <<n, KeyswitchVelocity>>] : n \in ks }
       \cup { [tick |-> KeyswitchOffTick, type |-> "note_off", data |-> <<n, 0>>] : n \in ks }
       \cup UNION { { [tick |-> inject_args.automation[a].values[v][1] * inject_args.ticks_per_beat,
                       type |-> "control_change",
                       data |-> <<inject_args.automation[a].cc,
                                  inject_args.automation[a].values[v][2]>>] :
                       v \in 1..Len(inject_args.automation[a].values) } :
                    a \in 1..Len(inject_args.automation) }

\* C29: when inject_midi_controls returns True the track it wrote holds the
\* messages of the old track as a subsequence, each at its old absolute tick,
\* no delta time is negative, and every other message of it is a configured
\* keyswitch or control-change event; when it returns False nothing is
\* written.
C29_TrackPreserved ==
    /\ (pc = "done" /\ inject_result = "True") =>
          /\ midi_saved
          /\ Embeds(EventsOf(midi_track), EventsOf(saved_track))
          /\ \A i \in 1..Len(saved_track) : saved_track[i].time >= 0
          /\ Len(saved_track) - Len(midi_track)
                = Cardinality({ i \in 1..Len(saved_track) :
                                   EventsOf(saved_track)[i] \in ConfiguredEvents
                                   /\ ~(\E j \in 1..Len(midi_track) :
                                           EventsOf(midi_track)[j] = EventsOf(saved_track)[i]) })
    /\ (pc = "done" /\ inject_result = "False") => ~midi_saved


(***************************************************************************)
(* parse_lyrics_to_structure (lyrics_analyzer.py).  None is written <<>>:  *)
(* detect_section_marker never returns the empty string, and the code only *)
(* tests its result and current_section for truth.                         *)
(***************************************************************************)
MaxLyricLines == 4

\* re: \s, \d and \w on the characters of the model
DigitSet == { Digits[k] : k \in 1..10 }
WordChars == { LowerCase[k] : k \in 1..26 } \cup { UpperCase[k] : k \in 1..26 }
             \cup DigitSet \cup {"_"}

\* str.lower()
Lower(s) == [k \in 1..Len(s) |-> LowerOf(s[k])]

\* the length of the longest run of characters of a class that starts at
\* position i (a greedy `[class]*`)
RunLen(s, i, class) ==
    CHOOSE n \in 0..(Len(s) - i + 1) :
        /\ \A k \in i..(i + n - 1) : s[k] \in class
        /\ (i + n > Len(s) \/ s[i + n] \notin class)

\* s.strip(chars)
StripSet(s, chars) ==
    LET keep == { i \in 1..Len(s) : s[i] \notin chars } IN
    IF keep = {} THEN <<>>
    ELSE SubSeq(s, CHOOSE i \in keep : \A j \in keep : i <= j,
                   CHOOSE i \in keep : \A j \in keep : j <= i)

\* s.split(): the maximal runs of characters that are not whitespace
SplitWords(s) ==
    LET starts == { i \in 1..Len(s) :
                      s[i] \notin Whitespace /\ (i = 1 \/ s[i - 1] \in Whitespace) }
        nth(k) == CHOOSE i \in starts : Cardinality({ j \in starts : j < i }) = k - 1
    IN [k \in 1..Cardinality(starts) |->
          SubSeq(s, nth(k),
                 nth(k) + RunLen(s, nth(k), { s[j] : j \in 1..Len(s) } \ Whitespace) - 1)]

\* line 98, chord_pattern, matched at position i: the length of the match,
\* 0 for none.  `[Chord]`, `(Chord)`, or, at the start of the line only, a
\* letter A-G with whatever word characters and slashes follow it, the
\* whitespace after them, a colon and more whitespace (re.IGNORECASE)
ChordLetters == {"a", "b", "c", "d", "e", "f", "g"}
ChordClass == WordChars \cup {"#", "/"}
ChordMatch(s, i) ==
    LET inner == RunLen(s, i + 1, ChordClass)
        closes(c) == inner > 0 /\ i + 1 + inner <= Len(s) /\ s[i + 1 + inner] = c
        sharp == IF i + 1 <= Len(s) /\ s[i + 1] = "#" THEN 1 ELSE 0
        name == 1 + sharp + RunLen(s, i + 1 + sharp, WordChars \cup {"/"})
        sp1 == RunLen(s, i + name, Whitespace)
        colon == IF i + name + sp1 <= Len(s) /\ s[i + name + sp1] = ":" THEN 1 ELSE 0
        sp2 == RunLen(s, i + name + sp1 + colon, Whitespace)
    IN IF s[i] = "[" /\ closes("]") THEN inner + 2
       ELSE IF s[i] = "(" /\ closes(")") THEN inner + 2
       ELSE IF i = 1 /\ LowerOf(s[1]) \in ChordLetters THEN name + sp1 + colon + sp2
       ELSE 0

\* line 99: re.sub(chord_pattern, '', line), from position i on
RECURSIVE SubChords(_, _)
SubChords(s, i) ==
    IF i > Len(s) THEN <<>>
    ELSE IF ChordMatch(s, i) > 0 THEN SubChords(s, i + ChordMatch(s, i))
    ELSE <<s[i]>> \o SubChords(s, i + 1)

\* line 102: ^[\s\-|x0-9]+$
IsTabLine(s) ==
    s # <<>> /\ \A k \in 1..Len(s) : s[k] \in Whitespace \cup {"-", "|", "x"} \cup DigitSet

\* line 107: the chord suffixes, and a word made of them only
ChordSuffixes ==
    { <<"m">>, <<"m", "a", "j">>, <<"m", "i", "n">>, <<"d", "i", "m">>,
      <<"a", "u", "g">>, <<"s", "u", "s">>, <<"a", "d", "d">>, <<"7">>, <<"9">>,
      <<"1", "1">>, <<"1", "3">> }

RECURSIVE IsSuffixes(_)
IsSuffixes(w) ==
    \/ w = <<>>
    \/ \E t \in ChordSuffixes : StartsWith(w, t) /\ IsSuffixes(SubSeq(w, Len(t) + 1, Len(w)))

\* line 107: ^[A-G][#b]?(?:m|maj|...)*$ with re.I
IsChordWord(w) ==
    /\ w # <<>>
    /\ LowerOf(w[1]) \in ChordLetters
    /\ \/ IsSuffixes(Lower(SubSeq(w, 2, Len(w))))
       \/ /\ Len(w) >= 2
          /\ LowerOf(w[2]) \in {"#", "b"}
          /\ IsSuffixes(Lower(SubSeq(w, 3, Len(w))))

\* clean_line, lines 94-113
clean_line(line) ==
    LET subbed == SubChords(line, 1)
        words == SplitWords(subbed)
        chord_like == Cardinality({ k \in 1..Len(words) : IsChordWord(words[k]) })
    IN IF IsTabLine(subbed) THEN <<>>
       ELSE IF Len(words) > 0 /\ 2 * chord_like > Len(words) THEN <<>>
       ELSE Strip(JoinWith(words, <<" ">>))

\* lines 124-139: the prefix of each pattern, the section type it gives, and
\* whether the pattern needs the digits (`(\d+)`) or not (`(\d+)?`)
Pat(prefix, type, needs) == [prefix |-> prefix, type |-> type, needs |-> needs]

section_patterns ==
    << Pat(<<"v", "e", "r", "s", "e">>, <<"v", "e", "r", "s", "e">>, FALSE),
       Pat(<<"v">>, <<"v", "e", "r", "s", "e">>, TRUE),
       Pat(<<"c", "h", "o", "r", "u", "s">>, <<"c", "h", "o", "r", "u", "s">>, FALSE),
       Pat(<<"c">>, <<"c", "h", "o", "r", "u", "s">>, TRUE),
       Pat(<<"p", "r", "e", "-", "c", "h", "o", "r", "u", "s">>, <<"p", "r", "e", "c", "h", "o", "r", "u", "s">>, FALSE),
       Pat(<<"p", "r", "e", "c", "h", "o", "r", "u", "s">>, <<"p", "r", "e", "c", "h", "o", "r", "u", "s">>, FALSE),
       Pat(<<"b", "r", "i", "d", "g", "e">>, <<"b", "r", "i", "d", "g", "e">>, FALSE),
       Pat(<<"o", "u", "t", "r", "o">>, <<"o", "u", "t", "r", "o">>, FALSE),
       Pat(<<"i", "n", "t", "r", "o">>, <<"i", "n", "t", "r", "o">>, FALSE),
       Pat(<<"h", "o", "o", "k">>, <<"h", "o", "o", "k">>, FALSE),
       Pat(<<"r", "e", "f", "r", "a", "i", "n">>, <<"r", "e", "f", "r", "a", "i", "n">>, FALSE),
       Pat(<<"i", "n", "t", "e", "r", "l", "u", "d", "e">>, <<"i", "n", "t", "e", "r", "l", "u", "d", "e">>, FALSE),
       Pat(<<"s", "o", "l", "o">>, <<"s", "o", "l", "o">>, FALSE),
       Pat(<<"c", "o", "d", "a">>, <<"c", "o", "d", "a">>, FALSE),
       Pat(<<"t", "a", "g">>, <<"t", "a", "g">>, FALSE) >>

\* line 142: the digits of group 1 when pattern p matches at the start of s
PatternNum(s, p) ==
    LET at == Len(p.prefix) + 1 + RunLen(s, Len(p.prefix) + 1, Whitespace)
    IN SubSeq(s, at, at + RunLen(s, at, DigitSet) - 1)

PatternMatches(s, p) ==
    StartsWith(s, p.prefix) /\ (p.needs => PatternNum(s, p) # <<>>)

\* detect_section_marker, lines 116-153
detect_section_marker(line) ==
    LET line_lower == Strip(Lower(line))
        line_clean == Strip(SelectSeq(line_lower,
                               LAMBDA c : c \notin {"[", "]", "(", ")", "{", "}"}))
        hits == { k \in 1..Len(section_patterns) :
                    PatternMatches(line_clean, section_patterns[k]) }
        first == CHOOSE k \in hits : \A h \in hits : k <= h
        stripped == Strip(StripSet(line_clean, {"/"}))
    IN IF hits # {}
       THEN section_patterns[first].type \o PatternNum(line_clean, section_patterns[first])
       ELSE IF line_clean # <<>>
               /\ (line_clean[1] = "/" \/ line_clean[Len(line_clean)] = "/")
               /\ stripped # <<>>
       THEN [k \in 1..Len(stripped) |-> IF stripped[k] = " " THEN "-" ELSE stripped[k]]
       ELSE <<>>

\* lines 199 and 201: re.sub(r'\d+$', '', section), re.search(r'\d+$', section)
EndsInDigit(section) == section # <<>> /\ section[Len(section)] \in DigitSet

BaseSection(section) ==
    LET ends == { n \in 0..Len(section) :
                    \A k \in (Len(section) - n + 1)..Len(section) : section[k] \in DigitSet }
    IN SubSeq(section, 1, Len(section) - (CHOOSE n \in ends : \A m \in ends : m <= n))

\* section_counts[base], a defaultdict(int)
CountOf(counts, base) == IF base \in DOMAIN counts THEN counts[base] ELSE 0

\* lines 191-196 and 214-219: the section being collected goes to the
\* structure, when it has a name and lines
SaveSection(st, name, ls) ==
    IF name # <<>> /\ ls # <<>>
    THEN [sections |-> Append(st.sections, [name |-> name, lines |-> ls]),
          section_order |-> Append(st.section_order, name)]
    ELSE st

\* the lyric texts of the model: up to MaxLyricLines lines, each one of these
SlashMarker == <<"/", "v", "e", "r", "s", "e", "/">>
BracketMarker == <<"[", "C", "h", "o", "r", "u", "s", "]">>
NumberedMarker == <<"V", "e", "r", "s", "e", " ", "1">>
PlainLyric == <<"s", "i", "n", "g", " ", "i", "t">>
ChordedLyric == <<"[", "G", "]", " ", "r", "u", "n">>
ChordLine == <<"A", "m", " ", "G">>
TabLine == <<"x", "-", "2", "-", "|">>
BlankLine == <<>>

LyricLineChoices ==
    { SlashMarker, BracketMarker, NumberedMarker, PlainLyric, ChordedLyric, ChordLine,
      TabLine, BlankLine }

LyricTexts ==
    { JoinLines(ls) : ls \in UNION { [1..n -> LyricLineChoices] : n \in 0..MaxLyricLines } }

NotLyrics ==
    <<count_vars, combine_vars, render_vars, verify_vars, template_vars, cli_vars,
      song_vars, inject_vars>>

ParseInit ==
    /\ pc = "parse_lyrics_to_structure"
    /\ input_text \in LyricTexts
    /\ text_lines = <<>>
    /\ line_no = 0
    /\ current_section = <<>>
    /\ current_lines = <<>>
    /\ section_counts = <<>>
    /\ lyrics_structure = NoStructure
    /\ InjectIdle
    /\ CountIdle
    /\ CombineIdle
    /\ RenderIdle
    /\ VerifyIdle
    /\ TemplateIdle
    /\ CliIdle
    /\ dirs = {}
    /\ config = NoConfig
    /\ inst_idx = 0
    /\ LoopIdle

\* lines 169-178
ParseStart ==
    /\ pc = "parse_lyrics_to_structure"
    /\ text_lines' = SplitLines(Strip(input_text))
    /\ line_no' = 1
    /\ pc' = "parse_lines"
    /\ UNCHANGED <<input_text, current_section, current_lines, section_counts,
                   lyrics_structure, NotLyrics>>

\* lines 180-185: an empty line is skipped
ParseEmptyLine ==
    /\ pc = "parse_lines"
    /\ line_no <= Len(text_lines)
    /\ Strip(text_lines[line_no]) = <<>>
    /\ line_no' = line_no + 1
    /\ UNCHANGED <<pc, input_text, text_lines, current_section, current_lines,
                   section_counts, lyrics_structure, NotLyrics>>

\* lines 188-206: a section marker ends the section being collected and
\* starts the next one
ParseMarker ==
    /\ pc = "parse_lines"
    /\ line_no <= Len(text_lines)
    /\ LET line == Strip(text_lines[line_no])
           section == detect_section_marker(line)
           base_section == BaseSection(section)
           n == CountOf(section_counts, base_section) + 1
       IN /\ line # <<>>
          /\ section # <<>>
          /\ lyrics_structure' = SaveSection(lyrics_structure, current_section, current_lines)
          /\ section_counts' =
                [b \in DOMAIN section_counts \cup {base_section} |->
                    IF b = base_section THEN n ELSE section_counts[b]]
          /\ current_section' = IF EndsInDigit(section) THEN section
                                ELSE section \o IntToStr(n)
          /\ current_lines' = <<>>
    /\ line_no' = line_no + 1
    /\ UNCHANGED <<pc, input_text, text_lines, NotLyrics>>

\* lines 208-211: any other line is cleaned and, when something is left of
\* it, appended to the lines of the section
ParseLyric ==
    /\ pc = "parse_lines"
    /\ line_no <= Len(text_lines)
    /\ LET line == Strip(text_lines[line_no])
           cleaned == clean_line(line)
       IN /\ line # <<>>
          /\ detect_section_marker(line) = <<>>
          /\ current_lines' = IF cleaned # <<>> THEN Append(current_lines, cleaned)
                              ELSE current_lines
    /\ line_no' = line_no + 1
    /\ UNCHANGED <<pc, input_text, text_lines, current_section, section_counts,
                   lyrics_structure, NotLyrics>>

\* lines 213-231: the last section is saved; with no section at all, every
\* line that cleaning leaves something of goes to a single section verse1
ParseReturn ==
    /\ pc = "parse_lines"
    /\ line_no > Len(text_lines)
    /\ LET saved == SaveSection(lyrics_structure, current_section, current_lines)
           all_lines == SelectSeq([k \in 1..Len(text_lines) |-> clean_line(text_lines[k])],
                                  LAMBDA l : l # <<>>)
       IN lyrics_structure' =
             IF saved.sections = <<>> /\ all_lines # <<>>
             THEN [sections |-> <<[name |-> <<"v", "e", "r", "s", "e", "1">>, lines |-> all_lines]>>,
                   section_order |-> <<<<"v", "e", "r", "s", "e", "1">>>>]
             ELSE saved
    /\ pc' = "done"
    /\ UNCHANGED <<input_text, text_lines, line_no, current_section, current_lines,
                   section_counts, NotLyrics>>

LyricsNext ==
    \/ ParseStart
    \/ ParseEmptyLine
    \/ ParseMarker
    \/ ParseLyric
    \/ ParseReturn

SpecLyrics == ParseInit /\ [][LyricsNext]_vars


(***************************************************************************)
(* Properties of parse_lyrics_to_structure.                                *)
(***************************************************************************)
\* the lyric lines of the input, cleaned, in input order: the lines that are
\* not blank, are no section marker, and of which cleaning leaves something
LyricLinesOf(text) ==
    LET ls == SplitLines(text)
        kept == SelectSeq([k \in 1..Len(ls) |-> Strip(ls[k])],
                          LAMBDA l : /\ l # <<>>
                                     /\ detect_section_marker(l) = <<>>
                                     /\ clean_line(l) # <<>>)
    IN [k \in 1..Len(kept) |-> clean_line(kept[k])]

\* the lines of the sections, one section after the other
RECURSIVE SectionLines(_)
SectionLines(secs) ==
    IF secs = <<>> THEN <<>> ELSE Head(secs).lines \o SectionLines(Tail(secs))

Occurrences(seq, x) == Cardinality({ k \in 1..Len(seq) : seq[k] = x })

\* C30: parse_lyrics_to_structure loses no lyric line: the cleaned lyric lines
\* of the input are, in input order, among the lines of the output sections,
\* each as often as in the input; section_order lists the names of the
\* sections in their order; no two sections have the same name.
C30_NoLyricLineLost ==
    pc = "done" /\ input_text # <<>> =>
        LET secs == lyrics_structure.sections
            expected == LyricLinesOf(input_text)
            got == SectionLines(secs)
        IN /\ Embeds(expected, got)
           /\ \A k \in 1..Len(expected) :
                 Occurrences(got, expected[k]) = Occurrences(expected, expected[k])
           /\ lyrics_structure.section_order = [k \in 1..Len(secs) |-> secs[k].name]
           /\ \A i, j \in 1..Len(secs) : i # j => secs[i].name # secs[j].name

=============================================================================
